---- MODULE Spec2Model ----
(***************************************************************************)
(* MiniLaboESP instrument core: logical I/O units and their registry, the  *)
(* multimeter (DMM), the oscilloscope (Scope) and the function generator   *)
(* (FuncGen), as a state machine.                                          *)
(*                                                                         *)
(* C++ float values are modelled as exact rationals <<n, d>> in lowest     *)
(* terms with d > 0; d = 0 stands for the non-finite results of a float    *)
(* division by zero (<<1,0>> = +inf, <<-1,0>> = -inf, <<0,0>> = NaN).      *)
(* binary32 rounding is not modelled.                                      *)
(***************************************************************************)
EXTENDS Integers, Sequences, FiniteSets, TLC

VARIABLES
  drv,         \* the last driver call: its inputs and what it returned / drove
  phase,       \* "setup", "engines", "run", or "crashed" after a fatal exception
  cfgIo,       \* ConfigStore::doc("io")["devices"]
  heap,        \* every unit ever allocated, by pointer; Released once deleted
  _list,       \* IORegistry::_list
  _map,        \* IORegistry::_map
  regPc,       \* position inside IORegistry::begin(): "idle", "release", "create"
  regIdx,      \* the descriptor begin() is at
  regGen,      \* how many times begin() has released the registry
  viewPc,      \* the OLED IO view: "idle", "iter", "bus" (inside a bus read)
  viewSnap,    \* the vector list() returned to the view
  viewIdx,     \* the element of it the view is at
  resp,        \* the body of the last HTTP response
  cfgDmm,      \* ConfigStore::doc("dmm")["channels"]
  DMM_channels,   \* DMM::_channels
  dmmHist,     \* per DMM channel, the converted samples pushed since DMM::begin()
  cfgScope,    \* ConfigStore::doc("scope")["channels"]
  Scope_channels, \* Scope::_channels
  scopeHist,   \* per Scope channel, the rescaled samples pushed since Scope::begin()
  cfgFuncgen,  \* ConfigStore::doc("funcgen")
  _target,     \* FuncGen::_target
  _freq,       \* FuncGen::_freq
  _amp,        \* FuncGen::_amp
  _offset,     \* FuncGen::_offset
  _wave,       \* FuncGen::_wave
  _start,      \* FuncGen::_start
  now,         \* millis()
  fgOut,       \* the last FuncGen::loop() that reached writePercent: its locals
  dirty,       \* the areas whose AreaState::dirty is set by ConfigStore::requestSave
  stepPc,      \* the loop task inside Scope::loop(): "idle", "scope", "scope-bus"
               \* (inside a bus read), "scope-stale" (the same, _channels rebuilt since)
  stepIdx,     \* the channel the range-for of that Scope::loop() is at
  stepEnd,     \* the end of the range, taken when the range-for started
  fgIdle,      \* TRUE when the last call of FuncGen::loop() returned at
               \* "if (!_target) return;"
  _adsDevices, \* the ADS1115 handle created for each bus address
  _dacDevices, \* the MCP4725 handle created for each bus address
  initTries,   \* how often begin() was called on a chip, by kind and address
  initErrors,  \* how often a failed init was logged, by kind and address
  lastChange,  \* AreaState::lastChange of each area
  _lastSave,   \* ConfigStore::_lastSave
  files,       \* what the flash holds under each area's filename
  tmpFiles,    \* what the flash holds under each area's filename + ".tmp"
  docVer,      \* the revision of each area's document in memory
  loopLog,     \* the saveArea() calls of the latest ConfigStore::loop() call
  lastWrite,   \* when a loop() call before the latest last saved an area, or -1
  lastTouch,   \* when a loop() call before the latest last wrote to the flash, or -1
  failures,    \* how many saveArea() calls have been interrupted
  _ring,       \* Logger::_ring: per slot the number of the entry it holds (0: none;
               \* below 0: an entry logged before the last Logger::begin())
  _ringHead,   \* Logger::_ringHead
  _hasWrapped, \* Logger::_hasWrapped
  logCount,    \* how many entries were logged since Logger::begin()
  _callback,   \* Logger::_callback
  registered,  \* the callbacks passed to Logger::setLogCallback(), in order
  g_staConfigured,         \* main.cpp g_staConfigured
  g_lastReconnectAttempt,  \* main.cpp g_lastReconnectAttempt
  g_wifiReady,             \* main.cpp g_wifiInfo.ready
  lastAttempt,   \* when WiFi.begin() was last called for the station, or -1
  lastPostponed, \* when maintainWiFi() last ran with a client on the access point
                 \* while the station was configured and down, or -1
  _expectedPin,            \* WebServer::_expectedPin, a sequence of characters
  _hasAuthenticatedClient, \* WebServer::_hasAuthenticatedClient
  loggedIn,      \* the clients whose POST /login was answered 200
  g_displayState,          \* main.cpp g_displayState
  g_pinShown               \* main.cpp g_pinShown

drvVars == <<drv>>

regVars == <<cfgIo, heap, _list, _map, regPc, regIdx, regGen>>

viewVars == <<viewPc, viewSnap, viewIdx>>

dmmVars == <<cfgDmm, DMM_channels, dmmHist>>

scopeVars == <<cfgScope, Scope_channels, scopeHist>>

fgVars == <<cfgFuncgen, _target, _freq, _amp, _offset, _wave, _start, fgOut>>

engVars == <<dmmVars, scopeVars, fgVars, now>>

stepVars == <<stepPc, stepIdx, stepEnd>>

busVars == <<_adsDevices, _dacDevices, initTries, initErrors>>

storeVars == <<lastChange, _lastSave, files, tmpFiles, docVer, loopLog, lastWrite, lastTouch,
              failures>>

logVars == <<_ring, _ringHead, _hasWrapped, logCount, _callback, registered>>

wifiVars == <<g_staConfigured, g_lastReconnectAttempt, g_wifiReady, lastAttempt, lastPostponed>>

authVars == <<_expectedPin, _hasAuthenticatedClient, loggedIn>>

oledVars == <<g_displayState, g_pinShown>>

sysVars == <<logVars, wifiVars, authVars, oledVars>>

\* what the logger, the Wi-Fi upkeep, the login and the display leave alone
coreVars == <<storeVars, busVars, fgIdle, stepVars, dirty, phase, regVars, viewVars, engVars>>

vars == <<drv, phase, cfgIo, heap, _list, _map, regPc, regIdx, regGen,
          viewPc, viewSnap, viewIdx, resp, cfgDmm, DMM_channels, dmmHist,
          cfgScope, Scope_channels, scopeHist, cfgFuncgen, _target, _freq, _amp,
          _offset, _wave, _start, now, fgOut, dirty, stepPc, stepIdx, stepEnd,
          fgIdle, _adsDevices, _dacDevices, initTries, initErrors,
          lastChange, _lastSave, files, tmpFiles, docVer, loopLog, lastWrite, lastTouch,
          failures, _ring, _ringHead, _hasWrapped, logCount, _callback, registered,
          g_staConfigured, g_lastReconnectAttempt, g_wifiReady, lastAttempt,
          lastPostponed, _expectedPin, _hasAuthenticatedClient, loggedIn,
          g_displayState, g_pinShown>>

(***************************************************************************)
(* Float arithmetic (exact rationals)                                      *)
(***************************************************************************)
Abs(n) == IF n < 0 THEN -n ELSE n

Sgn(n) == IF n < 0 THEN -1 ELSE IF n > 0 THEN 1 ELSE 0

RECURSIVE GCD(_, _)
GCD(a, b) == IF b = 0 THEN a ELSE GCD(b, a % b)

Norm(n, d) ==
  IF d = 0 THEN <<Sgn(n), 0>>
  ELSE LET g == GCD(Abs(n), Abs(d))
           s == IF d < 0 THEN -1 ELSE 1
       IN  <<(s * n) \div g, (s * d) \div g>>

F(n) == <<n, 1>>

Q(n, d) == Norm(n, d)

NaN == <<0, 0>>

IsFinite(a) == a[2] > 0

IsNaN(a) == a = NaN

FNeg(a) == <<-a[1], a[2]>>

FAdd(a, b) ==
  IF IsNaN(a) \/ IsNaN(b) THEN NaN
  ELSE IF ~IsFinite(a) /\ ~IsFinite(b) THEN (IF a = b THEN a ELSE NaN)
  ELSE IF ~IsFinite(a) THEN a
  ELSE IF ~IsFinite(b) THEN b
  ELSE LET g == GCD(a[2], b[2])
       IN  Norm(a[1] * (b[2] \div g) + b[1] * (a[2] \div g), (a[2] \div g) * b[2])

FSub(a, b) == FAdd(a, FNeg(b))

FMul(a, b) ==
  IF IsNaN(a) \/ IsNaN(b) THEN NaN
  ELSE IF ~IsFinite(a) \/ ~IsFinite(b)
       THEN <<Sgn(a[1]) * Sgn(b[1]), 0>>
  ELSE Norm(a[1] * b[1], a[2] * b[2])

FDiv(a, b) ==
  IF IsNaN(a) \/ IsNaN(b) THEN NaN
  ELSE IF ~IsFinite(a) THEN (IF IsFinite(b) THEN (IF b[1] < 0 THEN FNeg(a) ELSE a) ELSE NaN)
  ELSE IF ~IsFinite(b) THEN F(0)
  ELSE IF b[1] = 0 THEN <<Sgn(a[1]), 0>>
  ELSE Norm(a[1] * b[2], a[2] * b[1])

\* a < b as the float comparison evaluates it (false when either is NaN)
FLt(a, b) ==
  IF IsNaN(a) \/ IsNaN(b) THEN FALSE
  ELSE IF ~IsFinite(a) /\ ~IsFinite(b) THEN a[1] < b[1]
  ELSE IF ~IsFinite(a) THEN a[1] < 0
  ELSE IF ~IsFinite(b) THEN b[1] > 0
  ELSE a[1] * b[2] < b[1] * a[2]

FGt(a, b) == FLt(b, a)

FGe(a, b) == ~IsNaN(a) /\ ~IsNaN(b) /\ ~FLt(a, b)

FLe(a, b) == FGe(b, a)

\* static_cast<uint16_t>(x) of a finite x >= 0: truncation, then 16 bits kept
CastU16(a) == (a[1] \div a[2]) % 65536

\* (1 << bits) - 1 as an int
RECURSIVE Pow2(_)
Pow2(n) == IF n = 0 THEN 1 ELSE 2 * Pow2(n - 1)

(***************************************************************************)
(* Unit drivers                                                            *)
(***************************************************************************)
\* the six ranges of the ADS1115 in millivolts, by adsGain_t constant
GainRange(g) ==
  CASE g = "GAIN_TWOTHIRDS" -> 6144
    [] g = "GAIN_ONE"       -> 4096
    [] g = "GAIN_TWO"       -> 2048
    [] g = "GAIN_FOUR"      -> 1024
    [] g = "GAIN_EIGHT"     -> 512
    [] g = "GAIN_SIXTEEN"   -> 256

Gains == {"GAIN_TWOTHIRDS", "GAIN_ONE", "GAIN_TWO", "GAIN_FOUR", "GAIN_EIGHT", "GAIN_SIXTEEN"}

\* mutant: the thresholds tested from the smallest range up (smallest range that covers)
pgaToGain_covering(pga) ==
  IF FLe(pga, Q(256, 1000)) THEN "GAIN_SIXTEEN"
  ELSE IF FLe(pga, Q(512, 1000)) THEN "GAIN_EIGHT"
  ELSE IF FLe(pga, Q(1024, 1000)) THEN "GAIN_FOUR"
  ELSE IF FLe(pga, Q(2048, 1000)) THEN "GAIN_TWO"
  ELSE IF FLe(pga, Q(4096, 1000)) THEN "GAIN_ONE"
  ELSE "GAIN_TWOTHIRDS"

pgaToGain(pga) ==
  IF FGe(pga, Q(6144, 1000)) THEN "GAIN_TWOTHIRDS"
  ELSE IF FGe(pga, Q(4096, 1000)) THEN "GAIN_ONE"
  ELSE IF FGe(pga, Q(2048, 1000)) THEN "GAIN_TWO"
  ELSE IF FGe(pga, Q(1024, 1000)) THEN "GAIN_FOUR"
  ELSE IF FGe(pga, Q(512, 1000)) THEN "GAIN_EIGHT"
  ELSE "GAIN_SIXTEEN"

\* IO_A0::readRaw on the ADC code analogRead(A0) returned
IO_A0_readRaw(bits, code) == FDiv(F(code), F(Pow2(bits) - 1))

\* IO_ADS1115::readRaw from the code readADC_SingleEnded returned on
IO_ADS1115_normalize(code) ==
  LET frac  == FDiv(F(code), F(32767))
      frac1 == IF FLt(frac, F(0)) THEN F(0) ELSE frac
  IN  IF FGt(frac1, F(1)) THEN F(1) ELSE frac1

\* mutant: the upper clamp of the percentage left out
ClampPercent_noUpper(percent) ==
  IF FLt(percent, F(0)) THEN F(0) ELSE percent

\* "if (percent < 0) percent = 0; if (percent > 100) percent = 100;"
ClampPercent(percent) ==
  LET p1 == IF FLt(percent, F(0)) THEN F(0) ELSE percent
  IN  IF FGt(p1, F(100)) THEN F(100) ELSE p1

\* the code IO_MCP4725::writePercent hands to setVoltage
IO_MCP4725_code(bits, percent) ==
  LET ratio   == FDiv(ClampPercent(percent), F(100))
      maxCode == (Pow2(bits) - 1) % 65536
  IN  CastU16(FAdd(FMul(ratio, F(maxCode)), Q(1, 2)))

\* the duty IO_0_10V::writePercent hands to analogWrite
IO_0_10V_pwm(percent) ==
  LET ratio == FDiv(ClampPercent(percent), F(100))
  IN  CastU16(FAdd(FMul(ratio, F(1023)), Q(1, 2)))

(***************************************************************************)
(* Driver calls on enumerated inputs, one call at a time                   *)
(***************************************************************************)
AdcMaxCode == 1023

AdsMinCode == -32768

AdsMaxCode == 32767

\* bit depths a descriptor may configure (0: the field is missing)
A0Bits == {0, 8, 10, 12}

DacBits == {8, 12, 16, 17}

\* requested full-scale values, in millivolts
PgaRequests == {0, 100, 256, 300, 512, 1000, 1024, 2000, 2048, 3000, 4096, 5000, 6144, 7000}

PercentBelow == 50

PercentMax == 200

Percents == (0 - PercentBelow)..PercentMax

NoCall == [op |-> "none"]

(***************************************************************************)
(* Configuration documents the store may hold                              *)
(***************************************************************************)
Dev(id, driver, bits, vref, ratio, addr, pga) ==
  [id |-> id, driver |-> driver, bits |-> bits, vref |-> vref, ratio |-> ratio,
   i2c_addr |-> addr, pga |-> pga]

devA0 == Dev("a", "a0", 10, F(1), Q(33, 10), 0, F(0))

devA0low == Dev("a", "a0", 8, F(1), F(1), 0, F(0))

devAds == Dev("b", "ads1115", 0, F(0), F(0), 72, F(2))

devDac == Dev("c", "mcp4725", 12, Q(33, 10), F(0), 96, F(0))

devPwm == Dev("c", "0_10v", 0, F(0), F(0), 0, F(0))

devPwmA == Dev("a", "0_10v", 0, F(0), F(0), 0, F(0))

devUnknown == Dev("d", "pcf8591", 8, F(0), F(0), 72, F(0))

\* the "devices" arrays a boot or a PUT /api/config/io may bring
IoConfigs ==
  { <<devA0, devAds>>,
    <<devUnknown, devA0low, devDac>>,
    <<devA0, devPwmA>>,
    <<devAds, devPwm>>,
    <<>> }

\* a "channels" entry of the dmm document
DmmChD(name, source, window, decimals) ==
  [name |-> name, source |-> source, filter_window |-> window, decimals |-> decimals]

\* the same with 3 decimals, as in the default document
DmmCh(name, source, window) == DmmChD(name, source, window, 3)

\* the "channels" arrays of the dmm document a boot or a PUT /api/config/dmm may bring
DmmConfigs ==
  { <<DmmCh("CH1", "a", 2)>>,
    <<DmmCh("CH1", "a", 0), DmmCh("CH2", "b", 3)>>,
    <<DmmCh("CH1", "zz", 2), DmmCh("CH2", "c", 1)>> }

\* a "channels" entry of the scope document
ScopeCh(name, source, amplitude, offset, size) ==
  [name |-> name, source |-> source, amplitude |-> amplitude, offset |-> offset,
   buffer_size |-> size]

\* the "channels" arrays of the scope document a boot or a PUT /api/config/scope may bring
ScopeConfigs ==
  { <<ScopeCh("S1", "a", F(2), F(1), 2)>>,
    <<ScopeCh("S1", "zz", F(1), F(0), 4), ScopeCh("S2", "a", F(0), Q(1, 2), 3)>>,
    <<ScopeCh("S1", "c", F(-1), Q(1, 2), 0)>>,
    <<ScopeCh("S1", "b", F(1), F(0), 2), ScopeCh("S2", "a", F(1), F(0), 2)>> }

\* the funcgen document; amp and offset in percent
FgDoc(target, freq, amp, offset, wave) ==
  [target |-> target, freq |-> freq, amp |-> amp, offset |-> offset, wave |-> wave]

\* an empty funcgen document as FuncGen::begin reads it: as<float>() of a missing
\* key is 0, as<String>() is "null"
FgEmpty == FgDoc("null", F(0), F(0), F(0), "null")

\* the funcgen documents a boot or a PUT /api/config/funcgen may bring
FgConfigs ==
  { FgDoc("c", F(50), F(50), F(0), "sine"),
    FgDoc("c", F(1), F(100), F(0), "triangle"),
    FgDoc("zz", F(2), F(50), F(25), "square") }

(***************************************************************************)
(* Initial state: the statics as constructed, the documents as loaded      *)
(***************************************************************************)
NullPtr == 0

\* the bus addresses the units of the model are configured on, by kind of chip
AdsAddrs == {72, 73}

DacAddrs == {96, 72}

BusKeys == ({"ads1115"} \X AdsAddrs) \cup ({"mcp4725"} \X DacAddrs)

\* the PIN of the default general document ("pin": 1234), as WebServer::begin()
\* stores it
DefaultPin == <<"1", "2", "3", "4">>

\* Logger::RING_SIZE, 200 in the firmware, to scale
RingSize == 3

\* the areas followed through saves, in the order std::map iterates _areas
AreaOrder == <<"dmm", "funcgen">>

StoreAreas == {AreaOrder[i] : i \in DOMAIN AreaOrder}

\* a name the flash has no file under
Missing == [ver |-> -1, whole |-> FALSE]

\* a file holding the whole of revision v of a document
Whole(v) == [ver |-> v, whole |-> TRUE]

\* a file holding the beginning of revision v: opened with "w" and not, or not
\* completely, written
Partial(v) == [ver |-> v, whole |-> FALSE]

Released ==
  [id |-> "", driver |-> "released", bits |-> 0, vref |-> F(0), ratio |-> F(0),
   i2c_addr |-> 0, pga |-> F(0), gen |-> 0]

NoResp == [route |-> "none"]

NoOut == [ran |-> FALSE]

\* the state at the entry of setup(), the four documents loaded from the given sets
Boot(ioDocs, dmmDocs, scopeDocs, fgDocs) ==
  /\ drv = NoCall
  /\ phase = "setup"
  /\ cfgIo \in ioDocs
  /\ heap = <<>>
  /\ _list = <<>>
  /\ _map = <<>>
  /\ regPc = "idle"
  /\ regIdx = 0
  /\ regGen = 0
  /\ viewPc = "idle"
  /\ viewSnap = <<>>
  /\ viewIdx = 0
  /\ resp = NoResp
  /\ cfgDmm \in dmmDocs
  /\ DMM_channels = <<>>
  /\ dmmHist = <<>>
  /\ cfgScope \in scopeDocs
  /\ Scope_channels = <<>>
  /\ scopeHist = <<>>
  /\ cfgFuncgen \in fgDocs
  /\ _target = NullPtr
  /\ _freq = F(50)
  /\ _amp = Q(1, 2)
  /\ _offset = F(0)
  /\ _wave = "sine"
  /\ _start = 0
  /\ now = 0
  /\ fgOut = NoOut
  /\ dirty = {}
  /\ stepPc = "idle"
  /\ stepIdx = 0
  /\ stepEnd = 0
  /\ fgIdle = FALSE
  /\ _adsDevices = <<>>
  /\ _dacDevices = <<>>
  /\ initTries = [k \in BusKeys |-> 0]
  /\ initErrors = [k \in BusKeys |-> 0]
  /\ lastChange = [a \in StoreAreas |-> 0]
  /\ _lastSave = 0
  /\ files = [a \in StoreAreas |-> Whole(0)]
  /\ tmpFiles = [a \in StoreAreas |-> Missing]
  /\ docVer = [a \in StoreAreas |-> 0]
  /\ loopLog = <<>>
  /\ lastWrite = -1
  /\ lastTouch = -1
  /\ failures = 0
  /\ _ring = [i \in 0..(RingSize - 1) |-> 0]
  /\ _ringHead = 0
  /\ _hasWrapped = FALSE
  /\ logCount = 0
  /\ _callback = "nullptr"
  /\ registered = <<>>
  /\ g_staConfigured = FALSE
  /\ g_lastReconnectAttempt = 0
  /\ g_wifiReady = FALSE
  /\ lastAttempt = -1
  /\ lastPostponed = -1
  /\ _expectedPin = DefaultPin
  /\ _hasAuthenticatedClient = FALSE
  /\ loggedIn = {}
  /\ g_displayState = "STATUS"
  /\ g_pinShown = FALSE

Init == Boot(IoConfigs, DmmConfigs, ScopeConfigs, FgConfigs)

\* no file on the flash: one A0 unit, one DMM channel on it, empty scope and
\* funcgen documents, as ConfigStore::loadArea fills them in
InitDefault == Boot({<<devA0>>}, {<<DmmCh("CH1", "a", 2)>>}, {<<>>}, {FgEmpty})

(***************************************************************************)
(* Driver calls on enumerated inputs, one call at a time                   *)
(***************************************************************************)
CallPgaToGain ==
  /\ drv = NoCall
  /\ \E mv \in PgaRequests :
       drv' = [op |-> "pgaToGain", pga |-> Q(mv, 1000), out |-> pgaToGain(Q(mv, 1000))]
  /\ UNCHANGED <<sysVars, storeVars, busVars, fgIdle, stepVars, dirty, phase, resp, regVars, viewVars, engVars>>

CallA0Read ==
  /\ drv = NoCall
  /\ \E bits \in A0Bits, code \in 0..AdcMaxCode :
       drv' = [op |-> "a0", bits |-> bits, code |-> code, out |-> IO_A0_readRaw(bits, code)]
  /\ UNCHANGED <<sysVars, storeVars, busVars, fgIdle, stepVars, dirty, phase, resp, regVars, viewVars, engVars>>

CallAdsRead ==
  /\ drv = NoCall
  /\ \E code \in AdsMinCode..AdsMaxCode :
       drv' = [op |-> "ads1115", code |-> code, out |-> IO_ADS1115_normalize(code)]
  /\ UNCHANGED <<sysVars, storeVars, busVars, fgIdle, stepVars, dirty, phase, resp, regVars, viewVars, engVars>>

CallMcpWrite ==
  /\ drv = NoCall
  /\ \E bits \in DacBits, p \in Percents :
       drv' = [op |-> "mcp4725", bits |-> bits, percent |-> F(p),
               out |-> IO_MCP4725_code(bits, F(p))]
  /\ UNCHANGED <<sysVars, storeVars, busVars, fgIdle, stepVars, dirty, phase, resp, regVars, viewVars, engVars>>

CallPwmWrite ==
  /\ drv = NoCall
  /\ \E p \in Percents :
       drv' = [op |-> "0_10v", percent |-> F(p), out |-> IO_0_10V_pwm(F(p))]
  /\ UNCHANGED <<sysVars, storeVars, busVars, fgIdle, stepVars, dirty, phase, resp, regVars, viewVars, engVars>>

\* the call returns to its caller
CallReturn ==
  /\ drv # NoCall
  /\ drv' = NoCall
  /\ UNCHANGED <<sysVars, storeVars, busVars, fgIdle, stepVars, dirty, phase, resp, regVars, viewVars, engVars>>

(***************************************************************************)
(* The chip handles of IO_ADS1115::readRaw and IO_MCP4725::writePercent    *)
(***************************************************************************)
\* begin() calls explored per chip
MaxTries == 2

RECURSIVE TriesOver(_)
TriesOver(keys) ==
  IF keys = {} THEN 0
  ELSE LET k == CHOOSE x \in keys : TRUE IN initTries[k] + TriesOver(keys \ {k})

\* "new Adafruit_ADS1115()" / "new Adafruit_MCP4725()": an object no earlier
\* call has created
NewHandle == TriesOver(BusKeys) + 1

\* mutant: the handle of a chip that failed to initialize is not kept
CacheAfter_dropFailed(devices, addr, handle, ok) ==
  IF ok THEN [a \in DOMAIN devices \cup {addr} |->
                IF a = addr THEN handle ELSE devices[a]]
        ELSE devices

\* "_adsDevices[_address] = ads;" / "_dacDevices[_address] = dac;", whatever
\* begin() returned
CacheAfter(devices, addr, handle, ok) ==
  [a \in DOMAIN devices \cup {addr} |-> IF a = addr THEN handle ELSE devices[a]]

\* mutant: the failure is logged by every call on the address
ErrorsAfter_everyCall(key, cached, ok) ==
  IF initTries[key] > 0 /\ initErrors[key] > 0 /\ initErrors[key] < MaxTries
    THEN [initErrors EXCEPT ![key] = @ + 1]
    ELSE IF cached \/ ok THEN initErrors ELSE [initErrors EXCEPT ![key] = @ + 1]

\* Logger::error(...) in the branch that creates the handle, when begin() fails
ErrorsAfter(key, cached, ok) ==
  IF cached \/ ok THEN initErrors ELSE [initErrors EXCEPT ![key] = @ + 1]

AdsSamples == {-1, 4681}

\* the logical units on the ADS1115 addresses: channels 0 and 1 of each
AdsChannels == {0, 1}

\* IO_ADS1115::readRaw() on the unit (addr, channel): the handle found or
\* created (begin() returning ok), then the bus transaction returning code
AdsReadRaw ==
  /\ drv = NoCall
  /\ \E addr \in AdsAddrs, channel \in AdsChannels, ok \in BOOLEAN, code \in AdsSamples :
       LET key == <<"ads1115", addr>>
           cached == addr \in DOMAIN _adsDevices
           ads == IF cached THEN _adsDevices[addr] ELSE NewHandle
       IN  /\ cached => ok
           /\ ~cached => initTries[key] < MaxTries
           /\ _adsDevices' = IF cached THEN _adsDevices
                             ELSE CacheAfter(_adsDevices, addr, ads, ok)
           /\ initTries' = IF cached THEN initTries
                           ELSE [initTries EXCEPT ![key] = @ + 1]
           /\ initErrors' = ErrorsAfter(key, cached, ok)
           /\ drv' = [op |-> "ads1115.readRaw", addr |-> addr, channel |-> channel,
                      cached |-> cached, handle |-> ads, code |-> code,
                      out |-> IO_ADS1115_normalize(code)]
  /\ UNCHANGED <<sysVars, storeVars, _dacDevices, fgIdle, stepVars, dirty, phase, resp, regVars, viewVars, engVars>>

\* percentages written in the handle calls
DacPercents == {0, 50, 100}

\* IO_MCP4725::writePercent(p) on the 12-bit unit at addr
McpWritePercent ==
  /\ drv = NoCall
  /\ \E addr \in DacAddrs, ok \in BOOLEAN, p \in DacPercents :
       LET key == <<"mcp4725", addr>>
           cached == addr \in DOMAIN _dacDevices
           dac == IF cached THEN _dacDevices[addr] ELSE NewHandle
       IN  /\ cached => ok
           /\ ~cached => initTries[key] < MaxTries
           /\ _dacDevices' = IF cached THEN _dacDevices
                             ELSE CacheAfter(_dacDevices, addr, dac, ok)
           /\ initTries' = IF cached THEN initTries
                           ELSE [initTries EXCEPT ![key] = @ + 1]
           /\ initErrors' = ErrorsAfter(key, cached, ok)
           /\ drv' = [op |-> "mcp4725.writePercent", addr |-> addr, cached |-> cached,
                      handle |-> dac, percent |-> F(p),
                      out |-> IO_MCP4725_code(12, F(p))]
  /\ UNCHANGED <<sysVars, storeVars, _adsDevices, fgIdle, stepVars, dirty, phase, resp, regVars, viewVars, engVars>>

NextBus ==
  \/ AdsReadRaw
  \/ McpWritePercent
  \/ CallReturn

\* reads and writes on units that share bus addresses, chips that may fail to
\* initialize
SpecBus == InitDefault /\ [][NextBus]_vars

(***************************************************************************)
(* ConfigStore: requestSave(), loop(), saveArea()                          *)
(***************************************************************************)
DEBOUNCE_MS == 1000

MIN_PERIOD_MS == 2000

\* changes made to the documents, and interrupted saveArea() calls, in a run
MaxRevisions == 3

MaxFailures == 1

\* the clock of the store's calls advances in steps of StoreSteps up to MaxStoreNow
StoreSteps == {1000}

MaxStoreNow == 5000

\* where a saveArea() call is interrupted: a call of the filesystem that fails
\* ("remove+rename": both), or the power lost ("cut-...") while the temporary
\* file is written, after it is closed, after the old file is removed
SaveFaults == {"none", "open", "serialize", "remove", "remove+rename", "rename",
               "cut-write", "cut-close", "cut-remove"}

\* ConfigStore::saveArea() on an area whose file holds file, whose temporary
\* file holds tmp and whose document is at revision doc: the two files after
\* the call, its result (ok), whether it wrote to the flash (touched) and
\* whether the power was lost in it (cut)
saveArea(file, tmp, doc, fault) ==
  CASE fault = "open" ->
         [file |-> file, tmp |-> tmp, ok |-> FALSE, touched |-> FALSE, cut |-> FALSE]
    [] fault = "serialize" ->
         [file |-> file, tmp |-> Partial(doc), ok |-> FALSE, touched |-> TRUE, cut |-> FALSE]
    [] fault = "cut-write" ->
         [file |-> file, tmp |-> Partial(doc), ok |-> FALSE, touched |-> TRUE, cut |-> TRUE]
    [] fault = "cut-close" ->
         [file |-> file, tmp |-> Whole(doc), ok |-> FALSE, touched |-> TRUE, cut |-> TRUE]
    [] fault = "cut-remove" ->
         [file |-> Missing, tmp |-> Whole(doc), ok |-> FALSE, touched |-> TRUE, cut |-> TRUE]
    [] fault = "rename" ->
         [file |-> Missing, tmp |-> Whole(doc), ok |-> FALSE, touched |-> TRUE, cut |-> FALSE]
    [] fault = "remove+rename" ->
         [file |-> file, tmp |-> Whole(doc), ok |-> FALSE, touched |-> TRUE, cut |-> FALSE]
    [] OTHER ->
         [file |-> Whole(doc), tmp |-> Missing, ok |-> TRUE, touched |-> TRUE, cut |-> FALSE]

\* mutant: _lastSave is set whatever saveArea() returned
LastSaveAfter_always(at, lastSave, ok) == at

\* "if (saveArea(kv.first)) { ...; _lastSave = now; }"
LastSaveAfter(at, lastSave, ok) == IF ok THEN at ELSE lastSave

\* the range-for of ConfigStore::loop() from the i-th area on, "now" taken once
\* at the top of the call; faults gives, per area, how its saveArea() call ends
RECURSIVE ConfigStore_loopFrom(_, _, _)
ConfigStore_loopFrom(i, st, faults) ==
  IF i > Len(AreaOrder) \/ st.cut THEN st
  ELSE LET a == AreaOrder[i]
       IN  IF /\ a \in st.dirty
              /\ now - lastChange[a] >= DEBOUNCE_MS
              /\ now - st.lastSave >= MIN_PERIOD_MS
           THEN LET r == saveArea(st.files[a], st.tmp[a], docVer[a], faults[a])
                    entry == [area |-> a, at |-> now,
                              ok |-> r.ok, touched |-> r.touched,
                              wasDirty |-> a \in st.dirty, changed |-> lastChange[a],
                              old |-> st.files[a], doc |-> docVer[a]]
                IN  ConfigStore_loopFrom(i + 1,
                      [dirty |-> IF r.ok THEN st.dirty \ {a} ELSE st.dirty,
                       lastSave |-> LastSaveAfter(now, st.lastSave, r.ok),
                       files |-> [st.files EXCEPT ![a] = r.file],
                       tmp |-> [st.tmp EXCEPT ![a] = r.tmp],
                       log |-> Append(st.log, entry),
                       cut |-> r.cut], faults)
           ELSE ConfigStore_loopFrom(i + 1, st, faults)

\* a handler changes an area's document and calls ConfigStore::requestSave(area)
StoreRequestSave ==
  /\ phase # "off"
  /\ \E a \in StoreAreas :
       /\ docVer["dmm"] + docVer["funcgen"] < MaxRevisions
       /\ docVer' = [docVer EXCEPT ![a] = @ + 1]
       /\ dirty' = dirty \cup {a}
       /\ lastChange' = [lastChange EXCEPT ![a] = now]
  /\ UNCHANGED <<sysVars, _lastSave, files, tmpFiles, loopLog, lastWrite, lastTouch, failures, now,
                 busVars, fgIdle, stepVars, drv, phase, resp, regVars, viewVars,
                 dmmVars, scopeVars, fgVars>>

\* time passes between two calls of the store
StoreTick ==
  /\ phase # "off"
  /\ \E ms \in StoreSteps : now + ms <= MaxStoreNow /\ now' = now + ms
  /\ UNCHANGED <<sysVars, storeVars, dirty, busVars, fgIdle, stepVars, drv, phase, resp,
                 regVars, viewVars, dmmVars, scopeVars, fgVars>>

\* the entries of a loop() call that saved an area / that wrote to the flash
Saved(log) == {i \in DOMAIN log : log[i].ok}

Touched(log) == {i \in DOMAIN log : log[i].touched}

\* one whole call of ConfigStore::loop(), its saveArea() calls ending as one
\* of faultMaps says; the power lost in a saveArea() call ends the run
StoreLoopWith(faultMaps) ==
  /\ phase # "off"
  /\ \E faults \in faultMaps :
       LET st == ConfigStore_loopFrom(1,
                   [dirty |-> dirty, lastSave |-> _lastSave, files |-> files,
                    tmp |-> tmpFiles, log |-> <<>>, cut |-> FALSE], faults)
       IN  /\ dirty' = st.dirty
           /\ _lastSave' = st.lastSave
           /\ files' = st.files
           /\ tmpFiles' = st.tmp
           /\ loopLog' = st.log
           /\ phase' = IF st.cut THEN "off" ELSE phase
           /\ failures' = failures + Cardinality(DOMAIN st.log \ Saved(st.log))
           /\ failures' <= MaxFailures
  /\ lastWrite' = IF Saved(loopLog) # {} THEN loopLog[1].at ELSE lastWrite
  /\ lastTouch' = IF Touched(loopLog) # {} THEN loopLog[1].at ELSE lastTouch
  /\ UNCHANGED <<sysVars, lastChange, docVer, now, busVars, fgIdle, stepVars, drv, resp,
                 regVars, viewVars, dmmVars, scopeVars, fgVars>>

\* loop(): a call of ConfigStore::loop() whose saves succeed, fail or lose
\* the power
StoreLoop ==
  StoreLoopWith({f \in [StoreAreas -> SaveFaults] :
                   \A a \in StoreAreas \ dirty : f[a] = "none"})

NextStore ==
  \/ StoreRequestSave
  \/ StoreTick
  \/ StoreLoop

\* the configuration store on its own: documents changed, time passing,
\* loop() calls whose saves succeed, fail or lose the power
SpecStore == InitDefault /\ [][NextStore]_vars

\* loop() calls whose flash writes all succeed
StoreLoopOk == StoreLoopWith({[a \in StoreAreas |-> "none"]})

\* loop() tests no delay longer than AgeCap: instants further back are all the
\* same to it
AgeCap == MIN_PERIOD_MS

\* the instant t seen ms later, the clock read relative to the present
Back(t, ms) == IF t - ms < now - AgeCap THEN now - AgeCap ELSE t - ms

\* time passes between two calls of the store, for runs without end: millis()
\* is read relative to the present, the recorded instants move back instead
StoreTickBack ==
  /\ phase # "off"
  /\ \E ms \in StoreSteps :
       /\ lastChange' = [a \in StoreAreas |-> Back(lastChange[a], ms)]
       /\ _lastSave' = Back(_lastSave, ms)
  /\ UNCHANGED <<sysVars, files, tmpFiles, docVer, loopLog, lastWrite, lastTouch, failures,
                 now, dirty, busVars, fgIdle, stepVars, drv, phase, resp,
                 regVars, viewVars, dmmVars, scopeVars, fgVars>>

\* revisions told apart in runs without end: the document in memory and the
\* RevCap before it
RevCap == 1

\* what a file holds once the document has been changed again, revisions
\* counted back from the one in memory
Older(f) == IF f.ver > 0 THEN [f EXCEPT !.ver = @ - 1] ELSE f

\* a handler changes an area's document and calls ConfigStore::requestSave(area),
\* for runs without end: past RevCap the revisions are renumbered
StoreRequestSaveAgain ==
  /\ phase # "off"
  /\ \E a \in StoreAreas :
       /\ docVer' = [docVer EXCEPT ![a] = IF @ < RevCap THEN @ + 1 ELSE @]
       /\ files' = IF docVer[a] < RevCap THEN files
                   ELSE [files EXCEPT ![a] = Older(@)]
       /\ tmpFiles' = IF docVer[a] < RevCap THEN tmpFiles
                      ELSE [tmpFiles EXCEPT ![a] = Older(@)]
       /\ dirty' = dirty \cup {a}
       /\ lastChange' = [lastChange EXCEPT ![a] = now]
  /\ UNCHANGED <<sysVars, _lastSave, loopLog, lastWrite, lastTouch, failures, now,
                 busVars, fgIdle, stepVars, drv, phase, resp, regVars, viewVars,
                 dmmVars, scopeVars, fgVars>>

NextStoreLive ==
  \/ StoreRequestSaveAgain
  \/ StoreTickBack
  \/ StoreLoopOk

\* the store in runs without end: loop() keeps being called, time keeps
\* passing, every flash write succeeds
SpecStoreLive ==
  /\ InitDefault
  /\ [][NextStoreLive]_vars
  /\ WF_vars(StoreTickBack)
  /\ WF_vars(StoreLoopOk)

(***************************************************************************)
(* Logger                                                                  *)
(***************************************************************************)
\* entries logged between two Logger::begin()
MaxLogged == 7

\* handleLogLineForDisplay (setup) and logCallback (WebServer::begin)
LogCallbacks == {"handleLogLineForDisplay", "logCallback"}

\* Logger::begin(): the ring is emptied by resetting its indices; what the
\* slots hold stays, marked as older than this begin()
LogBegin ==
  /\ drv = NoCall
  /\ logCount > 0
  /\ _ringHead' = 0
  /\ _hasWrapped' = FALSE
  /\ logCount' = 0
  /\ _ring' = [i \in DOMAIN _ring |-> IF _ring[i] > 0 THEN -_ring[i] ELSE _ring[i]]
  /\ UNCHANGED <<_callback, registered, wifiVars, authVars, oledVars, coreVars, drv, resp>>

\* Logger::setLogCallback(callback)
LogSetCallback ==
  /\ drv = NoCall
  /\ \E cb \in LogCallbacks :
       /\ _callback' = cb
       /\ registered' = IF \E i \in DOMAIN registered : registered[i] = cb
                        THEN registered ELSE Append(registered, cb)
  /\ UNCHANGED <<_ring, _ringHead, _hasWrapped, logCount, wifiVars, authVars, oledVars,
                 coreVars, drv, resp>>

\* mutant: every registered callback is called
Logger_deliver_all == registered

\* "if (_callback) { _callback(line); }": the callbacks a logged line is passed to
Logger_deliver == IF _callback = "nullptr" THEN <<>> ELSE <<_callback>>

\* Logger::log(): the entry stored at _ringHead, the line passed on
LogLine ==
  /\ drv = NoCall
  /\ logCount < MaxLogged
  /\ _ring' = [_ring EXCEPT ![_ringHead] = logCount + 1]
  /\ _ringHead' = (_ringHead + 1) % RingSize
  /\ _hasWrapped' = (_hasWrapped \/ (_ringHead + 1) % RingSize = 0)
  /\ logCount' = logCount + 1
  /\ drv' = [op |-> "logger.log", line |-> logCount + 1, to |-> Logger_deliver]
  /\ UNCHANGED <<_callback, registered, wifiVars, authVars, oledVars, coreVars, resp>>

\* mutant: the entries are read from _ringHead on
Logger_tail_fromHead(n) ==
  IF ~_hasWrapped /\ _ringHead = 0 THEN <<>>
  ELSE LET count == IF _hasWrapped THEN RingSize ELSE _ringHead
           m == IF n > count THEN count ELSE n
       IN  [i \in 1..m |-> _ring[(_ringHead + i - 1) % RingSize]]

\* Logger::tail(n): the entries returned, oldest first
Logger_tail(n) ==
  IF ~_hasWrapped /\ _ringHead = 0 THEN <<>>
  ELSE LET count == IF _hasWrapped THEN RingSize ELSE _ringHead
           m == IF n > count THEN count ELSE n
           start == (_ringHead + RingSize - m) % RingSize
       IN  [i \in 1..m |-> _ring[(start + i - 1) % RingSize]]

\* GET /api/logs/tail?n=...: Logger::tail(n)
LogTail ==
  /\ drv = NoCall
  /\ \E n \in 0..(RingSize + 1) :
       drv' = [op |-> "logger.tail", n |-> n, out |-> Logger_tail(n)]
  /\ UNCHANGED <<sysVars, coreVars, resp>>

NextLog ==
  \/ LogBegin
  \/ LogSetCallback
  \/ LogLine
  \/ LogTail
  \/ CallReturn

\* the logger on its own: callbacks registered, lines logged, the tail read
SpecLog == InitDefault /\ [][NextLog]_vars

(***************************************************************************)
(* main.cpp: setupWiFi(), maintainWiFi()                                   *)
(***************************************************************************)
STA_RETRY_INTERVAL_MS == 60000

\* the clock of the Wi-Fi upkeep advances in steps of WifiSteps up to MaxWifiNow
WifiSteps == {30000}

MaxWifiNow == 190000

\* "while (WiFi.status() != WL_CONNECTED && millis() - start < 10000)"
StaConnectWait == 10000

\* coreVars without the clock
coreButNow == <<storeVars, busVars, fgIdle, stepVars, dirty, phase, regVars, viewVars,
                dmmVars, scopeVars, fgVars>>

\* setupWiFi() in setup(), a station configured: WiFi.begin(), the wait for the
\* connection, the access point started when it does not come
WifiSetup ==
  /\ drv = NoCall
  /\ now = 0 /\ lastAttempt = -1
  /\ g_staConfigured' = TRUE
  /\ lastAttempt' = now
  /\ \E connected \in BOOLEAN :
       /\ g_wifiReady' = connected
       /\ now' = IF connected THEN now ELSE now + StaConnectWait
       /\ g_lastReconnectAttempt' = now'
  /\ UNCHANGED <<lastPostponed, logVars, authVars, oledVars, coreButNow, drv, resp>>

WifiTick ==
  /\ drv = NoCall
  /\ \E ms \in WifiSteps : now + ms <= MaxWifiNow /\ now' = now + ms
  /\ UNCHANGED <<sysVars, coreButNow, drv, resp>>

\* mutant: a client on the access point does not move g_lastReconnectAttempt
maintainWiFi_retry_noPostpone(last, apClients) ==
  IF apClients THEN [attempt |-> FALSE, last |-> last]
  ELSE IF now - last >= STA_RETRY_INTERVAL_MS THEN [attempt |-> TRUE, last |-> now]
  ELSE [attempt |-> FALSE, last |-> last]

\* maintainWiFi(), the branch "if (g_staConfigured && !staConnected)": whether
\* WiFi.begin() is called, and g_lastReconnectAttempt after it
maintainWiFi_retry(last, apClients) ==
  IF apClients THEN [attempt |-> FALSE, last |-> now]
  ELSE IF now - last >= STA_RETRY_INTERVAL_MS THEN [attempt |-> TRUE, last |-> now]
  ELSE [attempt |-> FALSE, last |-> last]

\* loop(): maintainWiFi(), the station connected or not, the access point up
\* or not, with or without a client
WifiMaintain ==
  /\ drv = NoCall
  /\ \E staConnected \in BOOLEAN, apActive \in BOOLEAN, stations \in {0, 1} :
       LET apClients == apActive /\ stations > 0
           down == g_staConfigured /\ ~staConnected
           r == IF down THEN maintainWiFi_retry(g_lastReconnectAttempt, apClients)
                ELSE [attempt |-> FALSE, last |-> g_lastReconnectAttempt]
       IN  /\ staConnected => g_staConfigured
           /\ g_wifiReady' = (staConnected \/ apClients)
           /\ g_lastReconnectAttempt' = r.last
           /\ lastAttempt' = IF r.attempt THEN now ELSE lastAttempt
           /\ lastPostponed' = IF down /\ apClients THEN now ELSE lastPostponed
           /\ drv' = [op |-> "maintainWiFi", at |-> now, configured |-> g_staConfigured,
                      connected |-> staConnected, clients |-> apClients,
                      attempted |-> r.attempt, prevAttempt |-> lastAttempt,
                      prevPostponed |-> lastPostponed]
  /\ UNCHANGED <<g_staConfigured, logVars, authVars, oledVars, coreVars, resp>>

NextWifi ==
  \/ WifiSetup
  \/ WifiTick
  \/ WifiMaintain
  \/ CallReturn

\* the Wi-Fi upkeep on its own, from boot
SpecWifi == InitDefault /\ [][NextWifi]_vars

(***************************************************************************)
(* IORegistry                                                              *)
(***************************************************************************)
MaxGen == 2

Range(s) == {s[i] : i \in DOMAIN s}

Live(p) == p \in DOMAIN heap /\ heap[p] # Released

KnownDrivers == {"a0", "ads1115", "mcp4725", "0_10v"}

\* IORegistry::get
Get(id) == IF id \in DOMAIN _map THEN _map[id] ELSE NullPtr

\* IORegistry::list
List == _list

\* setup() and the PUT /api/config/io handler enter IORegistry::begin()
SetupRegistry ==
  /\ phase = "setup" /\ regPc = "idle"
  /\ regPc' = "release"
  /\ UNCHANGED <<sysVars, storeVars, busVars, fgIdle, stepVars, dirty, drv, phase, resp, cfgIo, heap, _list, _map, regIdx, regGen, viewVars, engVars>>

\* a handler runs while the loop task is between two iterations or inside a bus read
HandlerMayRun ==
  /\ phase = "run" /\ regPc = "idle"
  /\ viewPc \in {"idle", "bus"}
  /\ stepPc \in {"idle", "scope-bus", "scope-stale"}

PutConfigIo ==
  /\ HandlerMayRun
  /\ regGen < MaxGen
  /\ \E devices \in IoConfigs : cfgIo' = devices
  /\ regPc' = "release"
  /\ resp' = [route |-> "PUT /api/config/io"]
  /\ dirty' = dirty \cup {"io"}
  /\ UNCHANGED <<sysVars, storeVars, busVars, fgIdle, stepVars, drv, phase, heap, _list, _map, regIdx, regGen, viewVars, engVars>>

\* mutant: the units are deleted but _map.clear() is left out
RegRelease_keepMap ==
  /\ regPc = "release"
  /\ heap' = [p \in DOMAIN heap |-> IF p \in Range(_list) THEN Released ELSE heap[p]]
  /\ _list' = <<>>
  /\ regGen' = regGen + 1
  /\ regPc' = "create"
  /\ regIdx' = 1
  /\ UNCHANGED <<sysVars, storeVars, busVars, fgIdle, stepVars, dirty, drv, phase, resp, cfgIo, _map, viewVars, engVars>>

\* "for (auto io : _list) delete io; _list.clear(); _map.clear();"
RegRelease ==
  /\ regPc = "release"
  /\ heap' = [p \in DOMAIN heap |-> IF p \in Range(_list) THEN Released ELSE heap[p]]
  /\ _list' = <<>>
  /\ _map' = <<>>
  /\ regGen' = regGen + 1
  /\ regPc' = "create"
  /\ regIdx' = 1
  /\ UNCHANGED <<sysVars, storeVars, busVars, fgIdle, stepVars, dirty, drv, phase, resp, cfgIo, viewVars, engVars>>

\* one turn of "for (JsonObject dev : devices)" on a recognized driver tag:
\* new IO_xxx(...) and registerIO
RegCreateUnit ==
  /\ regPc = "create" /\ regIdx <= Len(cfgIo)
  /\ cfgIo[regIdx].driver \in KnownDrivers
  /\ LET dev == cfgIo[regIdx]
         io  == Len(heap) + 1
     IN  /\ heap' = Append(heap, [id |-> dev.id, driver |-> dev.driver, bits |-> dev.bits,
                                  vref |-> dev.vref, ratio |-> dev.ratio,
                                  i2c_addr |-> dev.i2c_addr, pga |-> dev.pga,
                                  gen |-> regGen])
         /\ _list' = Append(_list, io)
         /\ _map' = (dev.id :> io) @@ _map
  /\ regIdx' = regIdx + 1
  /\ UNCHANGED <<sysVars, storeVars, busVars, fgIdle, stepVars, dirty, drv, phase, resp, cfgIo, regPc, regGen, viewVars, engVars>>

\* the same turn on an unknown tag: a warning, nothing registered
RegSkipUnknown ==
  /\ regPc = "create" /\ regIdx <= Len(cfgIo)
  /\ cfgIo[regIdx].driver \notin KnownDrivers
  /\ regIdx' = regIdx + 1
  /\ UNCHANGED <<sysVars, storeVars, busVars, fgIdle, stepVars, dirty, drv, phase, resp, cfgIo, heap, _list, _map, regPc, regGen, viewVars, engVars>>

\* begin() returns; in setup() WebServer::begin() follows
RegDone ==
  /\ regPc = "create" /\ regIdx > Len(cfgIo)
  /\ regPc' = "idle"
  /\ phase' = IF phase = "setup" THEN "engines" ELSE phase
  /\ UNCHANGED <<sysVars, storeVars, busVars, fgIdle, stepVars, dirty, drv, resp, cfgIo, heap, _list, _map, regIdx, regGen, viewVars, engVars>>

(***************************************************************************)
(* DMM                                                                     *)
(***************************************************************************)
\* ADC codes the inputs deliver
AdcSamples == {341, 1023}


\* what a call through a pointer to a deleted unit may come back with
UBValues == {F(0), F(7)}

\* the values io->readRaw() may return on a live unit
UnitReadings(io) ==
  CASE heap[io].driver = "a0" -> {IO_A0_readRaw(heap[io].bits, c) : c \in AdcSamples}
    [] heap[io].driver = "ads1115" -> {IO_ADS1115_normalize(c) : c \in AdsSamples}
    [] OTHER -> {F(0)}

getVref(io) == IF heap[io].driver = "a0" THEN heap[io].vref ELSE F(1)

getRatio(io) == IF heap[io].driver = "a0" THEN heap[io].ratio ELSE F(1)

\* "raw * ch.io->getVref() * ch.io->getRatio()"
UnitValues(io) ==
  IF Live(io)
    THEN {FMul(FMul(raw, getVref(io)), getRatio(io)) : raw \in UnitReadings(io)}
    ELSE UBValues

\* one value per channel, as one pass over the channels samples them
SampleVectors(channels) ==
  {s \in [DOMAIN channels -> UNION {UnitValues(channels[i].io) : i \in DOMAIN channels}] :
     \A i \in DOMAIN channels : s[i] \in UnitValues(channels[i].io)}

\* as<size_t>() of a JSON integer: 0 when it does not fit
AsSizeT(n) == IF n < 0 THEN 0 ELSE n

\* mutant: the configured window taken as it is, a window of 0 included
DMM_begin_rawWindow(doc) ==
  LET resolved == SelectSeq(doc, LAMBDA ch : Get(ch.source) # NullPtr)
  IN  [i \in DOMAIN resolved |->
         [name |-> resolved[i].name, io |-> Get(resolved[i].source),
          window |-> AsSizeT(resolved[i].filter_window),
          decimals |-> resolved[i].decimals % 256,
          buffer |-> <<>>, sum |-> F(0), last |-> F(0)]]

\* mutant: the first channel whose source does not resolve ends the build
DMM_begin_stopAtUnknown(doc) ==
  LET unknown == {i \in DOMAIN doc : Get(doc[i].source) = NullPtr}
      n == IF unknown = {} THEN Len(doc)
           ELSE (CHOOSE i \in unknown : \A k \in unknown : i <= k) - 1
  IN  [i \in 1..n |->
         [name |-> doc[i].name, io |-> Get(doc[i].source),
          window |-> IF AsSizeT(doc[i].filter_window) < 1
                       THEN 1 ELSE AsSizeT(doc[i].filter_window),
          decimals |-> doc[i].decimals % 256,
          buffer |-> <<>>, sum |-> F(0), last |-> F(0)]]

\* the channels DMM::begin() builds from the document
DMM_begin(doc) ==
  LET resolved == SelectSeq(doc, LAMBDA ch : Get(ch.source) # NullPtr)
  IN  [i \in DOMAIN resolved |->
         [name |-> resolved[i].name, io |-> Get(resolved[i].source),
          window |-> IF AsSizeT(resolved[i].filter_window) < 1
                       THEN 1 ELSE AsSizeT(resolved[i].filter_window),
          decimals |-> resolved[i].decimals % 256,
          buffer |-> <<>>, sum |-> F(0), last |-> F(0)]]

\* mutant: the oldest element leaves the buffer but stays in the sum
DMM_push_keepOldest(ch, value) ==
  LET full == Len(ch.buffer) >= ch.window
      buffer == IF full THEN Append(Tail(ch.buffer), value) ELSE Append(ch.buffer, value)
      sum == FAdd(ch.sum, value)
  IN  [ch EXCEPT !.buffer = buffer, !.sum = sum, !.last = FDiv(sum, F(Len(buffer)))]

\* mutant: the sum is divided by the window, also before the window is full
DMM_push_divWindow(ch, value) ==
  LET full == Len(ch.buffer) >= ch.window
      buffer == IF full THEN Append(Tail(ch.buffer), value) ELSE Append(ch.buffer, value)
      sum == IF full THEN FAdd(FSub(ch.sum, ch.buffer[1]), value) ELSE FAdd(ch.sum, value)
  IN  [ch EXCEPT !.buffer = buffer, !.sum = sum, !.last = FDiv(sum, F(ch.window))]

\* the body of the loop of DMM::loop() on one channel
DMM_push(ch, value) ==
  LET full == Len(ch.buffer) >= ch.window
      buffer == IF full THEN Append(Tail(ch.buffer), value) ELSE Append(ch.buffer, value)
      sum == IF full THEN FAdd(FSub(ch.sum, ch.buffer[1]), value) ELSE FAdd(ch.sum, value)
  IN  [ch EXCEPT !.buffer = buffer, !.sum = sum, !.last = FDiv(sum, F(Len(buffer)))]

\* pushes per channel explored after a begin()
MaxPush == 4

\* DMM::loop() on the samples s
DMM_loop(s) ==
  /\ \A i \in DOMAIN dmmHist : Len(dmmHist[i]) < MaxPush
  /\ DMM_channels' = [i \in DOMAIN DMM_channels |-> DMM_push(DMM_channels[i], s[i])]
  /\ dmmHist' = [i \in DOMAIN dmmHist |-> Append(dmmHist[i], s[i])]

\* the loop task is at the top of loop()
LoopMayRun == phase = "run" /\ regPc = "idle" /\ viewPc = "idle" /\ stepPc = "idle"

\* loop(): DMM::loop(), every channel's unit alive
LoopDmm ==
  /\ LoopMayRun
  /\ \A i \in DOMAIN DMM_channels : Live(DMM_channels[i].io)
  /\ \E s \in SampleVectors(DMM_channels) : DMM_loop(s)
  /\ UNCHANGED <<sysVars, storeVars, busVars, fgIdle, stepVars, dirty, drv, phase, resp, regVars, viewVars, cfgDmm, scopeVars, fgVars, now>>

\* "char buf[32]" of DMM::values()
ValuesBufSize == 32

RECURSIVE DigitCount(_)
\* the decimal digits of the natural number n
DigitCount(n) == IF n < 10 THEN 1 ELSE 1 + DigitCount(n \div 10)

\* the characters dtostrf(value, 0, decimals, buf) writes, the closing NUL
\* included: a sign, the integer digits, a point and `decimals' digits.  The
\* rounding carry into a further integer digit does not occur for the values
\* of the model.
DtostrfLen(value, decimals) ==
  (IF value[1] < 0 THEN 1 ELSE 0) + DigitCount(Abs(value[1]) \div value[2])
    + (IF decimals > 0 THEN decimals + 1 ELSE 0) + 1

\* every channel's formatted average fits buf
ValuesFit(channels) ==
  \A i \in DOMAIN channels :
    DtostrfLen(channels[i].last, channels[i].decimals) <= ValuesBufSize

\* UDPServer::loop(), emission enabled and due: emitDMMValues() calls DMM::loop()
\* before it sends the values
UdpEmitDmm ==
  /\ LoopMayRun
  /\ \A i \in DOMAIN DMM_channels : Live(DMM_channels[i].io)
  /\ \E s \in SampleVectors(DMM_channels) : DMM_loop(s)
  /\ ValuesFit(DMM_channels')
  /\ UNCHANGED <<sysVars, storeVars, busVars, fgIdle, stepVars, dirty, drv, phase, resp, regVars, viewVars, cfgDmm, scopeVars, fgVars, now>>

\* GET /api/dmm: DMM::loop(), then DMM::values()
ApiDmm ==
  /\ HandlerMayRun
  /\ \A i \in DOMAIN DMM_channels : Live(DMM_channels[i].io)
  /\ \E s \in SampleVectors(DMM_channels) : DMM_loop(s)
  /\ ValuesFit(DMM_channels')
  /\ resp' = [route |-> "GET /api/dmm",
              names |-> [i \in DOMAIN DMM_channels |-> DMM_channels[i].name]]
  /\ UNCHANGED <<sysVars, storeVars, busVars, fgIdle, stepVars, dirty, drv, phase, regVars, viewVars, cfgDmm, scopeVars, fgVars, now>>

\* GET /api/dmm with a channel whose formatted average does not fit buf:
\* dtostrf writes past the end of the array on the handler's stack, undefined
\* behaviour, either a fatal exception or the handler survives and responds
ApiDmmOverflow ==
  /\ HandlerMayRun
  /\ \A i \in DOMAIN DMM_channels : Live(DMM_channels[i].io)
  /\ \E s \in SampleVectors(DMM_channels) : DMM_loop(s)
  /\ ~ValuesFit(DMM_channels')
  /\ \/ phase' = "crashed" /\ resp' = resp
     \/ /\ phase' = phase
        /\ resp' = [route |-> "GET /api/dmm",
                    names |-> [i \in DOMAIN DMM_channels |-> DMM_channels[i].name]]
  /\ UNCHANGED <<sysVars, storeVars, busVars, fgIdle, stepVars, dirty, drv, regVars, viewVars, cfgDmm, scopeVars, fgVars, now>>

\* DMM::loop(), from loop() or from GET /api/dmm, with a channel bound to a deleted
\* unit: undefined behaviour, either a fatal exception or some value is read
DmmLoopReleased ==
  /\ HandlerMayRun
  /\ \E i \in DOMAIN DMM_channels : ~Live(DMM_channels[i].io)
  /\ \/ phase' = "crashed" /\ UNCHANGED <<sysVars, DMM_channels, dmmHist>>
     \/ phase' = phase /\ \E s \in SampleVectors(DMM_channels) : DMM_loop(s)
  /\ UNCHANGED <<sysVars, storeVars, busVars, fgIdle, stepVars, dirty, drv, resp, regVars, viewVars, cfgDmm, scopeVars, fgVars, now>>

\* PUT /api/config/dmm: the document replaced, DMM::begin()
PutConfigDmm ==
  /\ HandlerMayRun
  /\ \E channels \in DmmConfigs :
       /\ cfgDmm' = channels
       /\ DMM_channels' = DMM_begin(channels)
       /\ dmmHist' = [i \in DOMAIN DMM_begin(channels) |-> <<>>]
  /\ resp' = [route |-> "PUT /api/config/dmm"]
  /\ dirty' = dirty \cup {"dmm"}
  /\ UNCHANGED <<sysVars, storeVars, busVars, fgIdle, stepVars, drv, phase, regVars, viewVars, scopeVars, fgVars, now>>

(***************************************************************************)
(* Scope                                                                   *)
(***************************************************************************)
ScopeDefaultSize == 256

\* the channels Scope::begin() builds from the document
Scope_begin(doc) ==
  LET resolved == SelectSeq(doc, LAMBDA ch : Get(ch.source) # NullPtr)
  IN  [i \in DOMAIN resolved |->
         [name |-> resolved[i].name, io |-> Get(resolved[i].source),
          amplitude |-> resolved[i].amplitude, offset |-> resolved[i].offset,
          bufferSize |-> IF AsSizeT(resolved[i].buffer_size) > 0
                           THEN AsSizeT(resolved[i].buffer_size) ELSE ScopeDefaultSize,
          buffer |-> <<>>]]

\* mutant: the division is made for every amplitude but 0
Scope_scaled_nonZeroDivide(ch, value) ==
  IF ch.amplitude # F(0)
    THEN FDiv(FSub(value, ch.offset), ch.amplitude)
    ELSE FSub(value, ch.offset)

\* mutant: the division is made whatever the amplitude
Scope_scaled_alwaysDivide(ch, value) ==
  FDiv(FSub(value, ch.offset), ch.amplitude)

\* "scaled = amplitude > 0 ? (value - offset) / amplitude : value - offset"
Scope_scaled(ch, value) ==
  IF FGt(ch.amplitude, F(0))
    THEN FDiv(FSub(value, ch.offset), ch.amplitude)
    ELSE FSub(value, ch.offset)

\* the amplitudes, offsets and values the rescaling is applied to twice
RescaleAmplitudes == {F(-1), F(0), Q(1, 2), F(1), F(2)}

RescaleOffsets == {F(-1), F(0), Q(1, 2)}

RescaleValues == {F(0), F(1), Q(-3, 2)}

\* the rescaling of Scope::loop() applied to each value, and to each result again
CallScopeScaledTwice ==
  /\ drv = NoCall
  /\ \E amplitude \in RescaleAmplitudes, offset \in RescaleOffsets :
       LET ch == [amplitude |-> amplitude, offset |-> offset]
       IN  drv' = [op |-> "scope-scaled", amplitude |-> amplitude, offset |-> offset,
                   once |-> [v \in RescaleValues |-> Scope_scaled(ch, v)],
                   twice |-> [v \in RescaleValues |->
                                Scope_scaled(ch, Scope_scaled(ch, v))]]
  /\ UNCHANGED <<sysVars, storeVars, busVars, fgIdle, stepVars, dirty, phase, resp, regVars, viewVars, engVars>>

\* mutant: the sample is appended without the oldest one leaving
Scope_push_noErase(ch, value) ==
  [ch EXCEPT !.buffer = Append(ch.buffer, Scope_scaled(ch, value))]

\* the body of the loop of Scope::loop() on one channel
Scope_push(ch, value) ==
  [ch EXCEPT !.buffer = IF Len(ch.buffer) < ch.bufferSize
                          THEN Append(ch.buffer, Scope_scaled(ch, value))
                          ELSE Append(Tail(ch.buffer), Scope_scaled(ch, value))]

\* pushes explored beyond a channel's capacity
MaxOver == 2

\* Scope::loop() on the samples s
Scope_loop(s) ==
  /\ \A i \in DOMAIN scopeHist :
       Len(scopeHist[i]) < Scope_channels[i].bufferSize + MaxOver
  /\ Scope_channels' = [i \in DOMAIN Scope_channels |-> Scope_push(Scope_channels[i], s[i])]
  /\ scopeHist' = [i \in DOMAIN scopeHist |->
                     Append(scopeHist[i], Scope_scaled(Scope_channels[i], s[i]))]

\* loop(): Scope::loop()
LoopScope ==
  /\ LoopMayRun
  /\ \A i \in DOMAIN Scope_channels : Live(Scope_channels[i].io)
  /\ \E s \in SampleVectors(Scope_channels) : Scope_loop(s)
  /\ UNCHANGED <<sysVars, storeVars, busVars, fgIdle, stepVars, dirty, drv, phase, resp, regVars, viewVars, cfgScope, dmmVars, fgVars, now>>

\* GET /api/scope: Scope::loop(), then Scope::toJson()
ApiScope ==
  /\ HandlerMayRun
  /\ \A i \in DOMAIN Scope_channels : Live(Scope_channels[i].io)
  /\ \E s \in SampleVectors(Scope_channels) : Scope_loop(s)
  /\ resp' = [route |-> "GET /api/scope",
              names |-> [i \in DOMAIN Scope_channels |-> Scope_channels[i].name]]
  /\ UNCHANGED <<sysVars, storeVars, busVars, fgIdle, stepVars, dirty, drv, phase, regVars, viewVars, cfgScope, dmmVars, fgVars, now>>

\* Scope::loop(), from loop() or from GET /api/scope, with a channel bound to a
\* deleted unit: undefined behaviour, either a fatal exception or some value is
\* read (followed for the first MaxPush pushes of a channel)
ScopeLoopReleased ==
  /\ HandlerMayRun
  /\ \E i \in DOMAIN Scope_channels : ~Live(Scope_channels[i].io)
  /\ \/ phase' = "crashed" /\ UNCHANGED <<sysVars, Scope_channels, scopeHist>>
     \/ /\ phase' = phase
        /\ \A i \in DOMAIN scopeHist : Len(scopeHist[i]) < MaxPush
        /\ \E s \in SampleVectors(Scope_channels) : Scope_loop(s)
  /\ UNCHANGED <<sysVars, storeVars, busVars, fgIdle, stepVars, dirty, drv, resp, regVars, viewVars, cfgScope, dmmVars, fgVars, now>>

\* PUT /api/config/scope: the document replaced, Scope::begin()
PutConfigScope ==
  /\ HandlerMayRun
  /\ \E channels \in ScopeConfigs :
       /\ cfgScope' = channels
       /\ Scope_channels' = Scope_begin(channels)
       /\ scopeHist' = [i \in DOMAIN Scope_begin(channels) |-> <<>>]
  /\ resp' = [route |-> "PUT /api/config/scope"]
  /\ dirty' = dirty \cup {"scope"}
  /\ stepPc' = IF stepPc = "scope-bus" THEN "scope-stale" ELSE stepPc
  /\ UNCHANGED <<sysVars, storeVars, busVars, fgIdle, stepIdx, stepEnd, drv, phase, regVars, viewVars, dmmVars, fgVars, now>>

(***************************************************************************)
(* Scope::loop() channel by channel, as the loop task runs it              *)
(***************************************************************************)
\* "for (auto &ch : _channels)": the range is taken once
ScopeStepEnter ==
  /\ LoopMayRun
  /\ Scope_channels # <<>>
  /\ \A i \in DOMAIN scopeHist :
       Len(scopeHist[i]) < Scope_channels[i].bufferSize + MaxOver
  /\ stepPc' = "scope"
  /\ stepIdx' = 1
  /\ stepEnd' = Len(Scope_channels)
  /\ UNCHANGED <<sysVars, storeVars, busVars, fgIdle, dirty, drv, phase, resp, regVars, viewVars, engVars>>

\* the channel ch pushed with value, the others left alone (through a deleted
\* unit: followed for the first MaxPush pushes of the channel)
ScopeStepPush(value) ==
  /\ Live(Scope_channels[stepIdx].io) \/ Len(scopeHist[stepIdx]) < MaxPush
  /\ Scope_channels' = [Scope_channels EXCEPT
                          ![stepIdx] = Scope_push(Scope_channels[stepIdx], value)]
  /\ scopeHist' = [scopeHist EXCEPT
                     ![stepIdx] = Append(@, Scope_scaled(Scope_channels[stepIdx], value))]

\* one turn of the range-for: ch.io->readRaw(); an ADS1115 read waits on the bus,
\* any other unit is read and the sample pushed at once.  A unit deleted during
\* an earlier bus read of this step: undefined behaviour, a fatal exception or
\* some value.
ScopeStepChannel ==
  /\ phase = "run" /\ stepPc = "scope" /\ stepIdx <= stepEnd
  /\ LET io == Scope_channels[stepIdx].io
     IN  IF Live(io) /\ heap[io].driver = "ads1115"
           THEN /\ stepPc' = "scope-bus"
                /\ UNCHANGED <<sysVars, phase, stepIdx, Scope_channels, scopeHist>>
           ELSE \/ /\ \E value \in UnitValues(io) : ScopeStepPush(value)
                   /\ stepIdx' = stepIdx + 1
                   /\ UNCHANGED <<sysVars, phase, stepPc>>
                \/ /\ ~Live(io)
                   /\ phase' = "crashed"
                   /\ UNCHANGED <<sysVars, stepPc, stepIdx, Scope_channels, scopeHist>>
  /\ UNCHANGED <<sysVars, storeVars, busVars, fgIdle, stepEnd, dirty, drv, resp, regVars, viewVars, cfgScope, dmmVars, fgVars, now>>

\* the bus read returns, _channels untouched since: the sample is pushed.  The
\* unit itself deleted meanwhile: undefined behaviour, as above.
ScopeStepBusDone ==
  /\ phase = "run" /\ stepPc = "scope-bus"
  /\ LET io == Scope_channels[stepIdx].io
     IN  \/ /\ \E value \in UnitValues(io) : ScopeStepPush(value)
            /\ stepPc' = "scope"
            /\ stepIdx' = stepIdx + 1
            /\ phase' = phase
         \/ /\ ~Live(io)
            /\ phase' = "crashed"
            /\ UNCHANGED <<sysVars, stepPc, stepIdx, Scope_channels, scopeHist>>
  /\ UNCHANGED <<sysVars, storeVars, busVars, fgIdle, stepEnd, dirty, drv, resp, regVars, viewVars, cfgScope, dmmVars, fgVars, now>>

\* the bus read returns into a range-for whose _channels was cleared and rebuilt
\* by Scope::begin(): ch and the end of the range refer to destroyed elements.
\* Undefined behaviour: a fatal exception, or the step gets out with nothing
\* pushed.
ScopeStepStale ==
  /\ phase = "run" /\ stepPc = "scope-stale"
  /\ \/ phase' = "crashed" /\ UNCHANGED stepVars
     \/ phase' = phase /\ stepPc' = "idle" /\ stepIdx' = 0 /\ stepEnd' = 0
  /\ UNCHANGED <<sysVars, storeVars, busVars, fgIdle, dirty, drv, resp, regVars, viewVars, engVars>>

\* the range-for is through
ScopeStepLeave ==
  /\ phase = "run" /\ stepPc = "scope" /\ stepIdx > stepEnd
  /\ stepPc' = "idle"
  /\ stepIdx' = 0
  /\ stepEnd' = 0
  /\ UNCHANGED <<sysVars, storeVars, busVars, fgIdle, dirty, drv, phase, resp, regVars, viewVars, engVars>>

(***************************************************************************)
(* FuncGen                                                                 *)
(***************************************************************************)
\* x - trunc(x): fmodf(x, 1.0f), the sign of x kept
FModOne(a) == Norm(a[1] - Sgn(a[1]) * (Abs(a[1]) \div a[2]) * a[2], a[2])

\* x - floor(x)
Frac(a) == <<a[1] % a[2], a[2]>>

\* sin(2 * pi * turns) of the reals: exact at the quarter turns (0, 1, 0, -1), in
\* between the rational approximation 16v(1-v) / (5 - 4v(1-v)) of a half wave,
\* v in [0, 1]
SinTurns(turns) ==
  LET u == Frac(turns)
      second == FGe(u, Q(1, 2))
      v == IF second THEN FSub(FMul(F(2), u), F(1)) ELSE FMul(F(2), u)
      w == FMul(v, FSub(F(1), v))
      h == FDiv(FMul(F(16), w), FSub(F(5), FMul(F(4), w)))
  IN  IF second THEN FNeg(h) ELSE h

\* a frequency near the top of the float range, 3e38 Hz (FLT_MAX is 3.4028e38);
\* the one value of the model written <<mantissa, -exponent>>, never computed with
FltBig == <<3, -38>>

\* the whole numbers k of half turns up to MaxHalfTurns at which the binary32
\* value of k * PI lies on the negative side of the zero crossing of the sine:
\* sinf((float)(k * PI)) < 0, from -8.74e-8 at k = 1 to -1.47e-6 at k = 25
MaxHalfTurns == 29
HalfTurnsBelowZero == {1, 3, 9, 10, 13, 14, 15, 19, 20, 22, 25, 28}

\* sinf of the binary32 argument nearest to k * PI, k # 0: never 0, a residue
\* below 4e-6 in magnitude whose sign is the sign of the rounding; the residue
\* is represented by 2^-16.  sinf is odd.
SinResidue(k) ==
  CASE k > 0 /\ k <= MaxHalfTurns ->
         IF k \in HalfTurnsBelowZero THEN Q(-1, 65536) ELSE Q(1, 65536)
    [] k < 0 /\ -k <= MaxHalfTurns ->
         IF (-k) \in HalfTurnsBelowZero THEN Q(1, 65536) ELSE Q(-1, 65536)

\* sinf(2.0f * PI * freq * t).  At a whole number k # 0 of half turns the
\* argument is the float nearest to k * PI and the result is SinResidue(k).
\* For freq = FltBig the argument passes FLT_MAX from t = 0.181 s on, and the
\* sine of +inf is NaN.
sinf_2pift(freq, t) ==
  CASE freq # FltBig ->
         LET halves == FMul(F(2), FMul(freq, t))
         IN  IF halves[2] = 1 /\ halves[1] # 0 THEN SinResidue(halves[1])
             ELSE SinTurns(FMul(freq, t))
    [] freq = FltBig /\ t = F(0) -> F(0)
    [] freq = FltBig /\ FGe(t, Q(181, 1000)) -> NaN

\* fmodf(t * freq, 1.0f).  For freq = FltBig and 0 < t <= 1.134 s the product is
\* a finite float far above 2^24, a whole number; beyond, +inf and fmodf is NaN.
fmodf_tf(freq, t) ==
  CASE freq # FltBig -> FModOne(FMul(t, freq))
    [] freq = FltBig /\ FLe(t, Q(1134, 1000)) -> F(0)
    [] freq = FltBig /\ FGt(t, Q(1134, 1000)) -> NaN

\* mutant: an unknown tag gives the full-scale value
Waveform_otherOne(wave, freq, t) ==
  CASE wave = "sine" -> sinf_2pift(freq, t)
    [] wave = "square" -> IF FGe(sinf_2pift(freq, t), F(0)) THEN F(1) ELSE F(-1)
    [] wave = "triangle" ->
         LET ph == fmodf_tf(freq, t)
         IN  IF FLt(ph, Q(1, 2)) THEN FSub(FMul(ph, F(4)), F(1))
                                 ELSE FSub(F(3), FMul(ph, F(4)))
    [] OTHER -> F(1)

\* the waveform value x of FuncGen::loop() at t seconds
Waveform(wave, freq, t) ==
  CASE wave = "sine" -> sinf_2pift(freq, t)
    [] wave = "square" -> IF FGe(sinf_2pift(freq, t), F(0)) THEN F(1) ELSE F(-1)
    [] wave = "triangle" ->
         LET ph == fmodf_tf(freq, t)
         IN  IF FLt(ph, Q(1, 2)) THEN FSub(FMul(ph, F(4)), F(1))
                                 ELSE FSub(F(3), FMul(ph, F(4)))
    [] OTHER -> F(0)

\* "y = _offset + (_amp / 2) * x + _amp / 2", clamped to 0..1
Level(x) ==
  LET y == FAdd(FAdd(_offset, FMul(FDiv(_amp, F(2)), x)), FDiv(_amp, F(2)))
  IN  IF FLt(y, F(0)) THEN F(0) ELSE IF FGt(y, F(1)) THEN F(1) ELSE y

\* what writePercent drives on the unit io: the DAC code, the PWM duty, or
\* nothing (-1) on a unit that has no output
Drive(io, percent) ==
  CASE heap[io].driver = "mcp4725" -> IO_MCP4725_code(heap[io].bits, percent)
    [] heap[io].driver = "0_10v" -> IO_0_10V_pwm(percent)
    [] OTHER -> -1

\* the same for any float: a NaN passes both clamps of writePercent and its
\* conversion to an integer is undefined, either end of the range may come out
DriveCodes(io, percent) ==
  IF IsFinite(percent) THEN {Drive(io, percent)}
  ELSE CASE heap[io].driver = "mcp4725" -> {0, (Pow2(heap[io].bits) - 1) % 65536}
         [] heap[io].driver = "0_10v" -> {0, 1023}
         [] OTHER -> {-1}

\* mutant: the document's percents taken as fractions
FuncGen_begin_noScale(doc) ==
  /\ _freq' = doc.freq
  /\ _amp' = doc.amp
  /\ _offset' = doc.offset
  /\ _wave' = doc.wave
  /\ _start' = now
  /\ _target' = Get(doc.target)

\* FuncGen::begin() on the document doc
FuncGen_begin(doc) ==
  /\ _freq' = doc.freq
  /\ _amp' = FDiv(doc.amp, F(100))
  /\ _offset' = FDiv(doc.offset, F(100))
  /\ _wave' = doc.wave
  /\ _start' = now
  /\ _target' = Get(doc.target)

\* mutant: the parameters are replaced, _start is left as it was
FuncGen_updateTarget_keepStart(id, freq, amp, off, wave) ==
  /\ _target' = Get(id)
  /\ _freq' = freq
  /\ _amp' = FDiv(amp, F(100))
  /\ _offset' = FDiv(off, F(100))
  /\ _wave' = wave
  /\ _start' = _start
  /\ cfgFuncgen' = FgDoc(id, freq, amp, off, wave)
  /\ dirty' = dirty \cup {"funcgen"}

\* FuncGen::updateTarget(id, freq, amp, off, wave)
FuncGen_updateTarget(id, freq, amp, off, wave) ==
  /\ _target' = Get(id)
  /\ _freq' = freq
  /\ _amp' = FDiv(amp, F(100))
  /\ _offset' = FDiv(off, F(100))
  /\ _wave' = wave
  /\ _start' = now
  /\ cfgFuncgen' = FgDoc(id, freq, amp, off, wave)
  /\ dirty' = dirty \cup {"funcgen"}

\* the commands a POST /api/funcgen or a UDP "funcgen" packet may bring
FgCommands ==
  { FgDoc("c", F(1), F(100), F(0), "sine"),
    FgDoc("c", F(2), F(50), F(50), "square"),
    FgDoc("c", F(3), F(100), F(0), "dc"),
    FgDoc("zz", F(1), F(100), F(0), "sine"),
    FgDoc("c", F(0), F(100), F(0), "square"),
    FgDoc("c", F(-1), F(50), F(25), "triangle"),
    FgDoc("c", FltBig, F(100), F(0), "sine") }

\* POST /api/funcgen
ApiFuncgen ==
  /\ HandlerMayRun
  /\ \E c \in FgCommands : FuncGen_updateTarget(c.target, c.freq, c.amp, c.offset, c.wave)
  /\ resp' = [route |-> "POST /api/funcgen"]
  /\ UNCHANGED <<sysVars, storeVars, busVars, fgIdle, stepVars, drv, phase, regVars, viewVars, dmmVars, scopeVars, now, fgOut>>

\* UDPServer::loop() on a packet of type "funcgen"
UdpFuncgen ==
  /\ LoopMayRun
  /\ \E c \in FgCommands : FuncGen_updateTarget(c.target, c.freq, c.amp, c.offset, c.wave)
  /\ UNCHANGED <<sysVars, storeVars, busVars, fgIdle, stepVars, drv, phase, resp, regVars, viewVars, dmmVars, scopeVars, now, fgOut>>

\* PUT /api/config/funcgen: the document replaced (by one of FgConfigs, or by
\* the document as it stands, put back unchanged), FuncGen::begin()
PutConfigFuncgen ==
  /\ HandlerMayRun
  /\ \E doc \in FgConfigs \cup {cfgFuncgen} : cfgFuncgen' = doc /\ FuncGen_begin(doc)
  /\ resp' = [route |-> "PUT /api/config/funcgen"]
  /\ dirty' = dirty \cup {"funcgen"}
  /\ UNCHANGED <<sysVars, storeVars, busVars, fgIdle, stepVars, drv, phase, regVars, viewVars, dmmVars, scopeVars, now, fgOut>>

\* loop(): FuncGen::loop() with a live target.  now - _start never wraps below
\* MaxNow, so the unsigned difference is the plain one.
LoopFuncGen ==
  /\ LoopMayRun
  /\ fgIdle' = FALSE
  /\ _target # NullPtr /\ Live(_target)
  /\ LET t == Q(now - _start, 1000)
         x == Waveform(_wave, _freq, t)
         percent == FMul(Level(x), F(100))
     IN  \E code \in DriveCodes(_target, percent) :
           fgOut' = [ran |-> TRUE, now |-> now, start |-> _start, wave |-> _wave,
                     freq |-> _freq, amp |-> _amp, offset |-> _offset,
                     t |-> t, x |-> x, percent |-> percent, code |-> code]
  /\ UNCHANGED <<sysVars, storeVars, busVars, stepVars, dirty, drv, phase, resp, regVars, viewVars, dmmVars, scopeVars, now,
                 cfgFuncgen, _target, _freq, _amp, _offset, _wave, _start>>

\* FuncGen::loop() with _target bound to a deleted unit: undefined behaviour,
\* either a fatal exception or a write that drives nothing
LoopFuncGenReleased ==
  /\ LoopMayRun
  /\ fgIdle' = FALSE
  /\ _target # NullPtr /\ ~Live(_target)
  /\ \/ phase' = "crashed" /\ fgOut' = fgOut
     \/ /\ phase' = phase
        /\ LET t == Q(now - _start, 1000)
               x == Waveform(_wave, _freq, t)
           IN  fgOut' = [ran |-> TRUE, now |-> now, start |-> _start, wave |-> _wave,
                         freq |-> _freq, amp |-> _amp, offset |-> _offset,
                         t |-> t, x |-> x, percent |-> FMul(Level(x), F(100)),
                         code |-> -1]
  /\ UNCHANGED <<sysVars, storeVars, busVars, stepVars, dirty, drv, resp, regVars, viewVars, dmmVars, scopeVars, now,
                 cfgFuncgen, _target, _freq, _amp, _offset, _wave, _start>>

\* mutant: no test of _target, the waveform is computed and the write is made
\* through the null pointer
LoopFuncGenNoTarget_noTest ==
  /\ LoopMayRun
  /\ _target = NullPtr
  /\ fgIdle' = FALSE
  /\ \/ phase' = "crashed" /\ fgOut' = fgOut
     \/ /\ phase' = phase
        /\ LET t == Q(now - _start, 1000)
               x == Waveform(_wave, _freq, t)
           IN  fgOut' = [ran |-> TRUE, now |-> now, start |-> _start, wave |-> _wave,
                         freq |-> _freq, amp |-> _amp, offset |-> _offset,
                         t |-> t, x |-> x, percent |-> FMul(Level(x), F(100)),
                         code |-> -1]
  /\ UNCHANGED <<sysVars, storeVars, busVars, stepVars, dirty, drv, resp, regVars, viewVars, dmmVars, scopeVars, now,
                 cfgFuncgen, _target, _freq, _amp, _offset, _wave, _start>>

\* "if (!_target) return;": the call returns at once
LoopFuncGenNoTarget ==
  /\ LoopMayRun
  /\ _target = NullPtr
  /\ fgIdle' = TRUE
  /\ UNCHANGED <<sysVars, storeVars, busVars, stepVars, dirty, drv, phase, resp, regVars, viewVars, dmmVars, scopeVars,
                 fgVars, now>>

\* time passes between two iterations of loop()
TickSteps == {250}

MaxNow == 250

Tick ==
  /\ LoopMayRun
  /\ \E ms \in TickSteps : now + ms <= MaxNow /\ now' = now + ms
  /\ UNCHANGED <<sysVars, storeVars, busVars, fgIdle, stepVars, dirty, drv, phase, resp, regVars, viewVars, dmmVars, scopeVars, fgVars>>

\* WebServer::begin() in setup(): DMM::begin(); Scope::begin(); FuncGen::begin();
SetupEngines ==
  /\ phase = "engines"
  /\ phase' = "run"
  /\ DMM_channels' = DMM_begin(cfgDmm)
  /\ dmmHist' = [i \in DOMAIN DMM_begin(cfgDmm) |-> <<>>]
  /\ Scope_channels' = Scope_begin(cfgScope)
  /\ scopeHist' = [i \in DOMAIN Scope_begin(cfgScope) |-> <<>>]
  /\ FuncGen_begin(cfgFuncgen)
  /\ UNCHANGED <<sysVars, storeVars, busVars, fgIdle, stepVars, dirty, drv, resp, regVars, viewVars, cfgDmm, cfgScope, cfgFuncgen, now, fgOut>>

(***************************************************************************)
(* The readers of IORegistry::list()                                       *)
(***************************************************************************)
MaxShown == 4

Min(a, b) == IF a < b THEN a ELSE b

\* GET /api/io: list() and the loop over it, inside one handler
ApiIo ==
  /\ HandlerMayRun
  /\ resp' = [route |-> "GET /api/io", ids |-> [i \in DOMAIN List |-> heap[List[i]].id]]
  /\ UNCHANGED <<sysVars, storeVars, busVars, fgIdle, stepVars, dirty, drv, phase, regVars, viewVars, engVars>>

\* updateDisplayState() in the IO state: "auto ios = IORegistry::list();"
ViewSnapshot ==
  /\ phase = "run" /\ regPc = "idle" /\ viewPc = "idle"
  /\ viewSnap' = List
  /\ viewIdx' = 1
  /\ viewPc' = "iter"
  /\ UNCHANGED <<sysVars, storeVars, busVars, fgIdle, stepVars, dirty, drv, phase, resp, regVars, engVars>>

\* showIOValues: io->readRaw() on a live unit; an ADS1115 read waits on the bus
ViewRead ==
  /\ phase = "run" /\ regPc = "idle" /\ viewPc = "iter"
  /\ viewIdx <= Min(Len(viewSnap), MaxShown)
  /\ Live(viewSnap[viewIdx])
  /\ IF heap[viewSnap[viewIdx]].driver = "ads1115"
       THEN viewPc' = "bus" /\ viewIdx' = viewIdx
       ELSE viewPc' = "iter" /\ viewIdx' = viewIdx + 1
  /\ UNCHANGED <<sysVars, storeVars, busVars, fgIdle, stepVars, dirty, drv, phase, resp, regVars, viewSnap, engVars>>

\* the same call through a pointer to a deleted unit: undefined behaviour,
\* either a fatal exception or some value is shown
ViewReadReleased ==
  /\ phase = "run" /\ regPc = "idle" /\ viewPc = "iter"
  /\ viewIdx <= Min(Len(viewSnap), MaxShown)
  /\ ~Live(viewSnap[viewIdx])
  /\ \/ phase' = "crashed" /\ UNCHANGED <<sysVars, viewPc, viewIdx>>
     \/ phase' = phase /\ viewPc' = "iter" /\ viewIdx' = viewIdx + 1
  /\ UNCHANGED <<sysVars, storeVars, busVars, fgIdle, stepVars, dirty, drv, resp, regVars, viewSnap, engVars>>

\* the bus read returns
ViewBusDone ==
  /\ phase = "run" /\ regPc = "idle" /\ viewPc = "bus"
  /\ viewPc' = "iter"
  /\ viewIdx' = viewIdx + 1
  /\ UNCHANGED <<sysVars, storeVars, busVars, fgIdle, stepVars, dirty, drv, phase, resp, regVars, viewSnap, engVars>>

\* showIOValues returns
ViewEnd ==
  /\ phase = "run" /\ regPc = "idle" /\ viewPc = "iter"
  /\ viewIdx > Min(Len(viewSnap), MaxShown)
  /\ viewPc' = "idle"
  /\ viewSnap' = <<>>
  /\ viewIdx' = 0
  /\ UNCHANGED <<sysVars, storeVars, busVars, fgIdle, stepVars, dirty, drv, phase, resp, regVars, engVars>>

\* millis() counts milliseconds in 32 bits.  The calls below sample it at
\* instants that are whole multiples of MillisTick ms after the recorded start,
\* where the low 16 bits of millis() and of _start agree, so that the unsigned
\* difference is the difference of the high 16 bits modulo MillisWrap ticks.
MillisTick == 65536

MillisWrap == 65536

\* "millis() - _start" at tick nowTick, _start taken at startTick: the unsigned
\* 32-bit difference, in ticks
FuncGen_elapsedTicks(nowTick, startTick) == (nowTick - startTick) % MillisWrap

\* "/ 1000.0f": ticks of MillisTick ms in seconds
TicksToSeconds(ticks) == Q(ticks * (MillisTick \div 8), 125)

\* ticks at which the parameters were set
StartTicks == {0, 1, 65535}

\* ticks run since then without a parameter change
DurationTicks == {0, 1, 65534, 65535, 65536, 65537}

\* FuncGen::loop() reading the clock duration ticks after the start
CallFuncGenElapsed ==
  /\ drv = NoCall
  /\ \E start \in StartTicks, duration \in DurationTicks :
       LET millis == (start + duration) % MillisWrap
       IN  drv' = [op |-> "funcgen.elapsed", start |-> start, duration |-> duration,
                   millis |-> millis,
                   since |-> TicksToSeconds(duration),
                   t |-> TicksToSeconds(FuncGen_elapsedTicks(millis, start)),
                   ticks |-> FuncGen_elapsedTicks(millis, start),
                   ticksBefore |->
                     IF duration = 0 THEN 0
                     ELSE FuncGen_elapsedTicks((start + duration - 1) % MillisWrap, start)]
  /\ UNCHANGED <<sysVars, storeVars, busVars, fgIdle, stepVars, dirty, phase, resp, regVars, viewVars, engVars>>

\* the drivers and the pure conversions, one call at a time
NextDrv ==
  \/ CallReturn
  \/ CallPgaToGain
  \/ CallA0Read
  \/ CallAdsRead
  \/ CallMcpWrite
  \/ CallPwmWrite
  \/ CallScopeScaledTwice
  \/ CallFuncGenElapsed

SpecDrv == InitDefault /\ [][NextDrv]_vars

NextReg ==
  \/ SetupRegistry
  \/ PutConfigIo
  \/ RegRelease
  \/ RegCreateUnit
  \/ RegSkipUnknown
  \/ RegDone
  \/ ApiIo
  \/ ViewSnapshot
  \/ ViewRead
  \/ ViewReadReleased
  \/ ViewBusDone
  \/ ViewEnd
  \/ SetupEngines

\* the registry and its readers, every devices array at boot
SpecReg == Boot(IoConfigs, {<<DmmCh("CH1", "a", 2)>>}, {<<>>}, {FgEmpty}) /\ [][NextReg]_vars

(***************************************************************************)
(* WebServer: the PIN, POST /login, checkAuth() and the handlers behind it *)
(***************************************************************************)
\* a String is the sequence of its characters
IsDigit(c) == c \in {"0", "1", "2", "3", "4", "5", "6", "7", "8", "9"}

\* isspace()
IsSpace(c) == c \in {" ", "\t"}

RECURSIVE extractDigitsFrom(_, _, _)
\* "for (size_t i = 0; i < value.length() && digits.length() < 4; ++i)",
\* i counted from 1
extractDigitsFrom(value, i, digits) ==
  IF i > Len(value) \/ Len(digits) >= 4 THEN digits
  ELSE extractDigitsFrom(value, i + 1,
                         IF IsDigit(value[i]) THEN Append(digits, value[i]) ELSE digits)

extractDigits(value) == extractDigitsFrom(value, 1, <<>>)

RECURSIVE PadZero(_)
\* "while (digits.length() < 4) digits = String('0') + digits;"
PadZero(digits) == IF Len(digits) < 4 THEN PadZero(<<"0">> \o digits) ELSE digits

normalizePin(value) ==
  LET digits == extractDigits(value)
  IN  IF Len(digits) = 0 THEN <<"0", "0", "0", "0">> ELSE PadZero(digits)

\* String::indexOf: the first position, from 0, where pat starts in s, or -1
indexOf(s, pat) ==
  LET hits == {i \in 0..(Len(s) - Len(pat)) : SubSeq(s, i + 1, i + Len(pat)) = pat}
  IN  IF hits = {} THEN -1 ELSE CHOOSE i \in hits : \A j \in hits : i <= j

\* String::substring(from, to): the characters from..to-1, counted from 0
substring(s, from, to) == SubSeq(s, from + 1, to)

RECURSIVE trimLeft(_)
trimLeft(s) == IF s # <<>> /\ IsSpace(s[1]) THEN trimLeft(Tail(s)) ELSE s

RECURSIVE trimRight(_)
trimRight(s) ==
  IF s # <<>> /\ IsSpace(s[Len(s)]) THEN trimRight(SubSeq(s, 1, Len(s) - 1)) ELSE s

\* String::trim
trim(s) == trimRight(trimLeft(s))

\* a request without a Cookie header, and one with the header c
NoCookie == [hasCookie |-> FALSE, cookie |-> <<>>]

Cookie(c) == [hasCookie |-> TRUE, cookie |-> c]

\* the header a browser sends back after "Set-Cookie: mlpin=1; Path=/"
SessionCookie == Cookie(<<"m", "l", "p", "i", "n", "=", "1">>)

\* WebServer::checkAuth
checkAuth(request) ==
  IF ~request.hasCookie THEN FALSE
  ELSE LET cookie == request.cookie
           idx == indexOf(cookie, <<"m", "l", "p", "i", "n", "=">>)
       IN  IF idx < 0 THEN FALSE
           ELSE LET val == substring(cookie, idx + 6, Len(cookie))
                    end == indexOf(val, <<";">>)
                    cut == IF end >= 0 THEN substring(val, 0, end) ELSE val
                IN  trim(cut) = <<"1">>

Clients == {"c1", "c2"}

\* the Cookie headers a request may carry: none, the session cookie, the
\* cookie among others and with blanks, another value, another cookie
CookieHeaders ==
  { NoCookie,
    SessionCookie,
    Cookie(<<"a", "=", "b", ";", " ", "m", "l", "p", "i", "n", "=", " ", "1", " ", ";", "c", "=", "d">>),
    Cookie(<<"m", "l", "p", "i", "n", "=", "0">>),
    Cookie(<<"a", "=", "b">>) }

\* the strings a POST /login may bring as "pin"
SubmittedPins ==
  { <<"1", "2", "3", "4">>,
    <<"0", "0", "0", "7">>,
    <<"1", "2", "3">>,
    <<>>,
    <<"1", "2", "3", "4", "5">>,
    <<"1", "2", "-", "3", "4">>,
    <<"a", "b", "c", "d">> }

\* the bodies of a POST /login: none, one that is not JSON, a JSON object
\* with a pin
LoginBodies ==
  {[kind |-> "empty", pin |-> <<>>], [kind |-> "invalid", pin |-> <<>>]}
    \cup {[kind |-> "json", pin |-> p] : p \in SubmittedPins}

\* the "pin" a PUT /api/config/general may bring, as<String>()
ConfigPins == { <<"7">> }

\* POST /login.  _expectedPin has four characters from WebServer::begin() on,
\* so the branch that reads the configured PIN again is never taken.
PostLogin ==
  /\ HandlerMayRun /\ drv = NoCall
  /\ \E client \in Clients, body \in LoginBodies :
       LET submittedSanitized == extractDigits(body.pin)
           ok == /\ body.kind = "json"
                 /\ Len(submittedSanitized) = 4
                 /\ Len(_expectedPin) = 4
                 /\ submittedSanitized = _expectedPin
       IN  /\ _hasAuthenticatedClient' = (ok \/ _hasAuthenticatedClient)
           /\ loggedIn' = IF ok THEN loggedIn \cup {client} ELSE loggedIn
           /\ resp' = [route |-> "POST /login", client |-> client, body |-> body,
                       status |-> IF body.kind = "invalid" THEN 400
                                  ELSE IF ok THEN 200 ELSE 401,
                       setCookie |-> ok]
  /\ UNCHANGED <<_expectedPin, logVars, wifiVars, oledVars, coreVars, drv>>

\* the response of a handler that starts with "if (!checkAuth(request))"
Answer(route, client, request) ==
  [route |-> route, client |-> client,
   status |-> IF checkAuth(request) THEN 200 ELSE 401]

\* GET /api/io, GET /api/logs/tail, GET /api/config/<area>: nothing but the
\* response changes
GetProtected ==
  /\ HandlerMayRun /\ drv = NoCall
  /\ \E client \in Clients, request \in CookieHeaders,
        route \in {"GET /api/io", "GET /api/logs/tail", "GET /api/config/general"} :
       resp' = Answer(route, client, request)
  /\ UNCHANGED <<sysVars, coreVars, drv>>

\* GET /api/dmm behind checkAuth()
GetApiDmm ==
  /\ HandlerMayRun /\ drv = NoCall
  /\ \A i \in DOMAIN DMM_channels : Live(DMM_channels[i].io)
  /\ \E client \in Clients, request \in CookieHeaders :
       /\ resp' = Answer("GET /api/dmm", client, request)
       /\ IF checkAuth(request)
          THEN \E s \in SampleVectors(DMM_channels) : DMM_loop(s)
          ELSE UNCHANGED <<DMM_channels, dmmHist>>
  /\ UNCHANGED <<sysVars, storeVars, busVars, fgIdle, stepVars, dirty, drv, phase, regVars,
                 viewVars, cfgDmm, scopeVars, fgVars, now>>

\* GET /api/scope behind checkAuth()
GetApiScope ==
  /\ HandlerMayRun /\ drv = NoCall
  /\ \A i \in DOMAIN Scope_channels : Live(Scope_channels[i].io)
  /\ \E client \in Clients, request \in CookieHeaders :
       /\ resp' = Answer("GET /api/scope", client, request)
       /\ IF checkAuth(request)
          THEN \E s \in SampleVectors(Scope_channels) : Scope_loop(s)
          ELSE UNCHANGED <<Scope_channels, scopeHist>>
  /\ UNCHANGED <<sysVars, storeVars, busVars, fgIdle, stepVars, dirty, drv, phase, regVars,
                 viewVars, cfgScope, dmmVars, fgVars, now>>

\* the commands of the requests below
AuthFgCommands == { FgDoc("a", F(1), F(100), F(0), "sine") }

\* POST /api/funcgen behind checkAuth(); the call of FuncGen::updateTarget()
\* is recorded with the client it was made for
PostApiFuncgen ==
  /\ HandlerMayRun /\ drv = NoCall
  /\ \E client \in Clients, request \in CookieHeaders, c \in AuthFgCommands :
       /\ resp' = Answer("POST /api/funcgen", client, request)
       /\ IF checkAuth(request)
          THEN /\ FuncGen_updateTarget(c.target, c.freq, c.amp, c.offset, c.wave)
               /\ drv' = [op |-> "FuncGen::updateTarget", by |-> client,
                          via |-> "POST /api/funcgen"]
          ELSE UNCHANGED <<_target, _freq, _amp, _offset, _wave, _start, cfgFuncgen,
                           dirty, drv>>
  /\ UNCHANGED <<sysVars, storeVars, busVars, fgIdle, stepVars, phase, regVars, viewVars,
                 dmmVars, scopeVars, now, fgOut>>

\* UDPServer::loop() on a packet of type "funcgen" sent by client
UdpPacketFuncgen ==
  /\ LoopMayRun /\ drv = NoCall
  /\ \E client \in Clients, c \in AuthFgCommands :
       /\ FuncGen_updateTarget(c.target, c.freq, c.amp, c.offset, c.wave)
       /\ drv' = [op |-> "FuncGen::updateTarget", by |-> client, via |-> "UDP funcgen"]
  /\ UNCHANGED <<sysVars, storeVars, busVars, fgIdle, stepVars, phase, resp, regVars,
                 viewVars, dmmVars, scopeVars, now, fgOut>>

\* PUT /api/config/general behind checkAuth(): requestSave("general") and
\* WebServer::setExpectedPin(cfg["pin"].as<String>())
PutConfigGeneral ==
  /\ HandlerMayRun /\ drv = NoCall
  /\ \E client \in Clients, request \in CookieHeaders, pin \in ConfigPins :
       /\ resp' = Answer("PUT /api/config/general", client, request)
       /\ IF checkAuth(request)
          THEN /\ _expectedPin' = normalizePin(pin)
               /\ _hasAuthenticatedClient' = FALSE
               /\ dirty' = dirty \cup {"general"}
          ELSE UNCHANGED <<_expectedPin, _hasAuthenticatedClient, dirty>>
  /\ UNCHANGED <<loggedIn, logVars, wifiVars, oledVars, storeVars, busVars, fgIdle,
                 stepVars, phase, regVars, viewVars, engVars, drv>>

ProtectedRoutes ==
  {"GET /api/io", "GET /api/logs/tail", "GET /api/config/general", "GET /api/dmm",
   "GET /api/scope", "POST /api/funcgen", "PUT /api/config/general"}

NextAuth ==
  \/ SetupRegistry
  \/ RegRelease
  \/ RegCreateUnit
  \/ RegDone
  \/ SetupEngines
  \/ PostLogin
  \/ GetProtected
  \/ GetApiDmm
  \/ GetApiScope
  \/ PostApiFuncgen
  \/ UdpPacketFuncgen
  \/ PutConfigGeneral
  \/ CallReturn

\* the web server and the UDP server after boot, two clients
SpecAuth == InitDefault /\ [][NextAuth]_vars

(***************************************************************************)
(* main.cpp: updateDisplayState()                                          *)
(***************************************************************************)
\* loop(): updateDisplayState().  g_wifiReady is g_wifiInfo.ready.  The
\* drawing (updateStatusDisplay, showPIN, showIOValues once a second) is left
\* out; the call is recorded with the state it found.
UpdateDisplayState ==
  /\ LoopMayRun /\ drv = NoCall
  /\ IF ~g_wifiReady
     THEN /\ g_displayState' = "STATUS"
          /\ g_pinShown' = IF g_displayState # "STATUS" THEN FALSE ELSE g_pinShown
     ELSE IF g_displayState = "STATUS"
     THEN g_displayState' = "PIN" /\ g_pinShown' = TRUE
     ELSE IF g_displayState = "PIN"
     THEN /\ g_displayState' = IF _hasAuthenticatedClient THEN "IO" ELSE "PIN"
          /\ g_pinShown' = g_pinShown
     ELSE UNCHANGED <<g_displayState, g_pinShown>>
  /\ drv' = [op |-> "updateDisplayState", from |-> g_displayState]
  /\ UNCHANGED <<logVars, wifiVars, authVars, coreVars, resp>>

NextOled ==
  \/ SetupRegistry
  \/ RegRelease
  \/ RegCreateUnit
  \/ RegDone
  \/ SetupEngines
  \/ WifiMaintain
  \/ UpdateDisplayState
  \/ PostLogin
  \/ PutConfigGeneral
  \/ CallReturn

\* the display state machine with the Wi-Fi upkeep, the login and the change
\* of the PIN
SpecOled == InitDefault /\ [][NextOled]_vars

NextDMM ==
  \/ SetupRegistry
  \/ RegRelease
  \/ RegCreateUnit
  \/ RegSkipUnknown
  \/ RegDone
  \/ SetupEngines
  \/ PutConfigIo
  \/ PutConfigDmm
  \/ LoopDmm
  \/ UdpEmitDmm
  \/ ApiDmm
  \/ DmmLoopReleased

NextScope ==
  \/ SetupRegistry
  \/ RegRelease
  \/ RegCreateUnit
  \/ RegSkipUnknown
  \/ RegDone
  \/ SetupEngines
  \/ PutConfigIo
  \/ PutConfigScope
  \/ LoopScope
  \/ ApiScope
  \/ ScopeLoopReleased

\* the oscilloscope over every devices array and every scope document
SpecScope == Boot(IoConfigs, {<<>>}, ScopeConfigs, {FgEmpty}) /\ [][NextScope]_vars

NextFuncGen ==
  \/ SetupRegistry
  \/ RegRelease
  \/ RegCreateUnit
  \/ RegSkipUnknown
  \/ RegDone
  \/ SetupEngines
  \/ PutConfigIo
  \/ PutConfigFuncgen
  \/ ApiFuncgen
  \/ UdpFuncgen
  \/ LoopFuncGen
  \/ LoopFuncGenReleased
  \/ LoopFuncGenNoTarget
  \/ Tick

\* the function generator over every funcgen document, booted with a DAC as unit
\* "c"; PUT /api/config/io brings the other registries
SpecFuncGen ==
  Boot({<<devUnknown, devA0low, devDac>>}, {<<>>}, {<<>>},
       FgConfigs \cup {FgEmpty}) /\ [][NextFuncGen]_vars

NextSteps ==
  \/ SetupRegistry
  \/ RegRelease
  \/ RegCreateUnit
  \/ RegSkipUnknown
  \/ RegDone
  \/ SetupEngines
  \/ PutConfigIo
  \/ PutConfigScope
  \/ ScopeStepEnter
  \/ ScopeStepChannel
  \/ ScopeStepBusDone
  \/ ScopeStepStale
  \/ ScopeStepLeave

\* Scope::loop() channel by channel against the handlers that reload
SpecSteps ==
  Boot({<<devA0, devAds>>, <<devAds, devPwm>>}, {<<>>},
       {<<ScopeCh("S1", "b", F(1), F(0), 2), ScopeCh("S2", "a", F(1), F(0), 2)>>},
       {FgEmpty}) /\ [][NextSteps]_vars

NextEngines ==
  \/ SetupRegistry
  \/ RegRelease
  \/ RegCreateUnit
  \/ RegSkipUnknown
  \/ RegDone
  \/ SetupEngines
  \/ LoopDmm
  \/ LoopScope
  \/ ApiDmm
  \/ ApiDmmOverflow
  \/ ApiScope

\* the multimeter and the oscilloscope built at boot from documents that name
\* sources the registry does not hold, then stepped by loop() and read by
\* GET /api/dmm and GET /api/scope; one DMM channel asks for 30 decimals
SpecEngines ==
  Boot({<<devUnknown, devA0low, devDac>>, <<devA0, devAds>>},
       {<<DmmCh("CH1", "a", 2), DmmCh("CH2", "zz", 1), DmmCh("CH3", "c", 1)>>,
        <<DmmCh("CH1", "zz", 2), DmmChD("CH2", "c", 1, 30)>>},
       {<<ScopeCh("S1", "zz", F(1), F(0), 4), ScopeCh("S2", "a", F(0), Q(1, 2), 3)>>,
        <<ScopeCh("S1", "a", F(1), F(0), 2), ScopeCh("S2", "zz", F(1), F(0), 2),
          ScopeCh("S3", "c", F(1), F(0), 2)>>},
       {FgEmpty}) /\ [][NextEngines]_vars

\* the multimeter over every dmm document, booted with units "a" and "b" or
\* "a" and "c"; PUT /api/config/io brings every devices array
SpecDMM ==
  Boot({<<devA0, devAds>>, <<devUnknown, devA0low, devDac>>}, DmmConfigs, {<<>>},
       {FgEmpty}) /\ [][NextDMM]_vars

(***************************************************************************)
(* Claims                                                                  *)
(***************************************************************************)
RECURSIVE SumSeq(_)
SumSeq(q) == IF q = <<>> THEN F(0) ELSE FAdd(q[1], SumSeq(Tail(q)))

\* the last n elements of q
LastN(q, n) == SubSeq(q, Len(q) - n + 1, Len(q))

Max(a, b) == IF a > b THEN a ELSE b

\* max(1, configured filter_window) of the document entry a DMM channel was built from
ConfiguredWindow(ch) ==
  Max(1, (CHOOSE e \in Range(cfgDmm) : e.name = ch.name).filter_window)

ConfiguredCapacity(ch) ==
  LET e == CHOOSE e \in Range(cfgScope) : e.name = ch.name
  IN  IF e.buffer_size > 0 THEN e.buffer_size ELSE 256

\* C3: for every Scope channel with capacity N (buffer_size if > 0, else 256) the
\* buffer never holds more than N samples, and after N + k pushes (k > 0) since
\* Scope::begin() it holds exactly the last N rescaled samples, oldest first.
C3_BoundedRing ==
  \A i \in DOMAIN Scope_channels :
    LET N == ConfiguredCapacity(Scope_channels[i])
    IN  /\ Len(Scope_channels[i].buffer) <= N
        /\ Len(scopeHist[i]) > N => Scope_channels[i].buffer = LastN(scopeHist[i], N)

C3_Witness ==
  \E i \in DOMAIN Scope_channels :
    /\ ConfiguredCapacity(Scope_channels[i]) = 2
    /\ Len(scopeHist[i]) = 4
    /\ scopeHist[i][2] # scopeHist[i][4]
    /\ Scope_channels[i].buffer = LastN(scopeHist[i], 2)

\* the waveform value at t = 0: sin(0) = 0, the square's ">= 0" branch, the
\* triangle's rising branch at phase 0, 0 for any other waveform name
AtZero(wave) ==
  CASE wave = "sine" -> F(0)
    [] wave = "square" -> F(1)
    [] wave = "triangle" -> F(-1)
    [] OTHER -> F(0)

\* C4: every step of FuncGen::begin() or FuncGen::updateTarget(), and every step
\* that changes a synthesis parameter, leaves _start at the current time; and a
\* FuncGen::loop() that runs at the instant _start holds evaluates the waveform
\* at t = 0: x = 0 for sine, +1 for square, -1 for triangle.
C4_PhaseReset ==
  /\ [][(\/ SetupEngines \/ PutConfigFuncgen \/ ApiFuncgen \/ UdpFuncgen
         \/ <<_target, _freq, _amp, _offset, _wave>>' # <<_target, _freq, _amp, _offset, _wave>>)
          => _start' = now']_vars
  /\ []((fgOut.ran /\ fgOut.now = fgOut.start)
          => (fgOut.t = F(0) /\ fgOut.x = AtZero(fgOut.wave)))

C4_Witness ==
  /\ fgOut.ran /\ fgOut.start > 0 /\ fgOut.now = fgOut.start /\ _start = fgOut.start
  /\ fgOut.wave = "triangle" /\ fgOut.t = F(0) /\ fgOut.x = F(-1)

\* C11 as stated: a reload of the Scope channels requested by a handler only
\* ever runs while no Scope::loop() is in progress.
C11_ReloadBetweenSteps == [][PutConfigScope => stepPc = "idle"]_vars

\* C12 as stated: a sample is pushed into a DMM window only by a step of the loop
\* task at the top of loop(); a step that serves GET /api/dmm pushes none.
C12_OnlyTickPushes ==
  [][(\E i \in DOMAIN dmmHist :
        i \in DOMAIN dmmHist' /\ Len(dmmHist'[i]) > Len(dmmHist[i]))
      => (LoopMayRun /\ resp' = resp)]_vars

\* C13 as stated: the value FuncGen::loop() passes to writePercent lies in
\* [0, 100], for every parameter set and every elapsed time.
C13_PercentInRange ==
  fgOut.ran => (FGe(fgOut.percent, F(0)) /\ FLe(fgOut.percent, F(100)))

KnownWaves == {"sine", "square", "triangle"}

\* min(max(y, 0), 1)
Clamp01(y) == IF FLt(y, F(0)) THEN F(0) ELSE IF FGt(y, F(1)) THEN F(1) ELSE y

C15_SquareConvention ==
  (fgOut.ran /\ fgOut.wave = "square" /\ fgOut.freq # FltBig) =>
     LET sine == SinTurns(FMul(fgOut.freq, fgOut.t))
     IN  fgOut.x = IF sine = F(0) THEN F(1) ELSE F(Sgn(sine[1]))

\* C16 as stated, for the frequencies below FltBig: with phase = frac(f*t) the
\* triangle value is 4*phase - 1 for phase < 0.5 and 3 - 4*phase otherwise, and
\* lies within [-1, 1].
C16_TriangleShape ==
  (fgOut.ran /\ fgOut.wave = "triangle" /\ fgOut.freq # FltBig) =>
     LET ph == Frac(FMul(fgOut.freq, fgOut.t))
     IN  /\ fgOut.x = IF FLt(ph, Q(1, 2)) THEN FSub(FMul(F(4), ph), F(1))
                                          ELSE FSub(F(3), FMul(F(4), ph))
         /\ FGe(fgOut.x, F(-1)) /\ FLe(fgOut.x, F(1))

\* C17: while _target is null no step writes to a unit through the generator or
\* fails, and a FuncGen::loop() made then changes none of the generator's
\* statics, its document, the registry or the heap.
C17_NoTargetNoOp ==
  /\ [][_target = NullPtr => (fgOut' = fgOut /\ phase' # "crashed")]_vars
  /\ [][LoopFuncGenNoTarget => UNCHANGED <<sysVars, fgVars, regVars, dirty, phase>>]_vars

\* an unresolved id unbinds a generator that has written before, time passes
\* and loop() is called
C17_Witness ==
  /\ _target = NullPtr /\ cfgFuncgen.target = "zz"
  /\ fgOut.ran /\ now > fgOut.now /\ fgIdle

\* C18: updateTarget(id, f, a, o, w) leaves the funcgen document at target id,
\* freq f, amp a, offset o (the percents as passed), wave w, with the area
\* marked for saving, and the statics at f, a/100, o/100, w; a FuncGen::begin()
\* on the document as it stands leaves frequency, amplitude fraction, offset
\* fraction and waveform as they are and binds the unit the document's id
\* resolves to, the same unit if the registry has not been rebuilt since.
C18_DocumentRoundTrip ==
  /\ [][(ApiFuncgen \/ UdpFuncgen) =>
          \E c \in FgCommands :
             /\ cfgFuncgen' = c
             /\ "funcgen" \in dirty'
             /\ _target' = Get(c.target) /\ _freq' = c.freq /\ _wave' = c.wave
             /\ _amp' = FDiv(c.amp, F(100)) /\ _offset' = FDiv(c.offset, F(100))]_vars
  /\ [][(PutConfigFuncgen /\ cfgFuncgen' = cfgFuncgen) =>
          /\ _freq' = _freq /\ _amp' = _amp /\ _offset' = _offset /\ _wave' = _wave
          /\ _target' = Get(cfgFuncgen.target)
          /\ (_target = Get(cfgFuncgen.target) => _target' = _target)]_vars

\* begin() has run on a document that only updateTarget can have written
C18_Witness ==
  /\ resp = [route |-> "PUT /api/config/funcgen"]
  /\ cfgFuncgen = FgDoc("c", F(2), F(50), F(50), "square")
  /\ _freq = F(2) /\ _amp = Q(1, 2) /\ _offset = Q(1, 2) /\ _wave = "square"
  /\ Live(_target) /\ "funcgen" \in dirty /\ _start = MaxNow

\* the entries of a channels array whose source is an id of the registry
Resolving(doc) == SelectSeq(doc, LAMBDA e : e.source \in DOMAIN _map)

\* C19: once the engines are built, the DMM channels and the Scope channels are
\* the configured entries whose source is in the registry, in the order of the
\* document, each bound to the unit of its source; and every kept channel has
\* been stepped as often as every other of its engine.
C19_UnresolvedDropped ==
  phase = "run" =>
    /\ Len(DMM_channels) = Len(Resolving(cfgDmm))
    /\ \A i \in DOMAIN DMM_channels :
         /\ DMM_channels[i].name = Resolving(cfgDmm)[i].name
         /\ DMM_channels[i].io = _map[Resolving(cfgDmm)[i].source]
         /\ Len(dmmHist[i]) = Len(dmmHist[1])
    /\ Len(Scope_channels) = Len(Resolving(cfgScope))
    /\ \A i \in DOMAIN Scope_channels :
         /\ Scope_channels[i].name = Resolving(cfgScope)[i].name
         /\ Scope_channels[i].io = _map[Resolving(cfgScope)[i].source]
         /\ Len(scopeHist[i]) = Len(scopeHist[1])

\* the middle entry of three is dropped in both engines and the entries after
\* it have been stepped twice
C19_Witness ==
  /\ phase = "run"
  /\ Len(cfgDmm) = 3 /\ Len(DMM_channels) = 2
  /\ DMM_channels[2].name = "CH3" /\ Len(DMM_channels[2].buffer) = 1
  /\ Len(dmmHist[2]) = 2
  /\ Len(cfgScope) = 3 /\ Len(Scope_channels) = 2
  /\ Scope_channels[2].name = "S3" /\ Len(Scope_channels[2].buffer) = 2

\* C20: every DMM channel has the window max(1, configured filter_window); its
\* buffer is empty while nothing has been pushed since begin() and holds between
\* 1 and window elements after every push, so that the mean is a quotient by a
\* count of at least 1, a finite value.
C20_WindowAtLeastOne ==
  \A i \in DOMAIN DMM_channels :
    LET ch == DMM_channels[i]
    IN  /\ ch.window = ConfiguredWindow(ch) /\ ch.window >= 1
        /\ Len(dmmHist[i]) = 0 => ch.buffer = <<>>
        /\ Len(dmmHist[i]) > 0 =>
             /\ Len(ch.buffer) >= 1 /\ Len(ch.buffer) <= ch.window
             /\ IsFinite(ch.last)
             /\ ch.last = FDiv(ch.sum, F(Len(ch.buffer)))

\* a channel configured with filter_window 0 after its second push
C20_Witness ==
  \E i \in DOMAIN DMM_channels :
    /\ \E e \in Range(cfgDmm) : e.name = DMM_channels[i].name /\ e.filter_window = 0
    /\ DMM_channels[i].window = 1
    /\ Len(dmmHist[i]) = 2 /\ Len(DMM_channels[i].buffer) = 1
    /\ DMM_channels[i].last = dmmHist[i][2]

\* C21: every sample Scope::loop() pushes is (value - offset) / amplitude when
\* the channel's amplitude is above 0 and value - offset otherwise, value being
\* what the channel's unit delivered; for an amplitude of 0 or below it is
\* exactly value - offset, and no quotient by 0 (a non-finite value) is pushed.
C21_ScaledWithoutZeroDivide ==
  [][\A i \in DOMAIN scopeHist :
       (i \in DOMAIN scopeHist' /\ Len(scopeHist'[i]) = Len(scopeHist[i]) + 1) =>
          LET ch == Scope_channels[i]
              out == scopeHist'[i][Len(scopeHist'[i])]
          IN  /\ IsFinite(out)
              /\ out = Scope_channels'[i].buffer[Len(Scope_channels'[i].buffer)]
              /\ \E value \in UnitValues(ch.io) :
                    /\ FGt(ch.amplitude, F(0)) =>
                         FMul(out, ch.amplitude) = FSub(value, ch.offset)
                    /\ FLe(ch.amplitude, F(0)) => out = FSub(value, ch.offset)]_vars

\* a channel of amplitude 0 and offset 1/2 holds a sample that is not 0
C21_Witness ==
  \E i \in DOMAIN Scope_channels :
    /\ Scope_channels[i].amplitude = F(0) /\ Scope_channels[i].offset = Q(1, 2)
    /\ Len(Scope_channels[i].buffer) > 0
    /\ Scope_channels[i].buffer[1] # F(0) /\ IsFinite(Scope_channels[i].buffer[1])

\* C22 as stated: the rescaling applied twice equals the rescaling applied
\* once on every value exactly when amplitude = 1 and offset = 0.
C22_IdempotentOnlyAtUnit ==
  drv.op = "scope-scaled" =>
    ((drv.twice = drv.once) <=> (drv.amplitude = F(1) /\ drv.offset = F(0)))

\* C22 amended: the rescaling applied twice equals the rescaling applied once
\* on every value exactly when offset = 0 and the amplitude is 1 or is not
\* above 0 (no division is made then).
C22_IdempotentAtZeroOffset ==
  drv.op = "scope-scaled" =>
    ((drv.twice = drv.once) <=>
       (drv.offset = F(0) /\ (drv.amplitude = F(1) \/ FLe(drv.amplitude, F(0)))))

\* amplitude 0 and offset 0: the second application changes nothing
C22_Witness ==
  /\ drv.op = "scope-scaled" /\ drv.amplitude = F(0) /\ drv.offset = F(0)
  /\ drv.twice = drv.once /\ drv.once[F(1)] = F(1)

\* C23 as stated: DMM::values() and Scope::toJson() change nothing: a handler
\* that calls loop() and then the accessor ends with every channel as that
\* loop() left it, the other engine untouched and the firmware running.
C23_AccessorsChangeNothing ==
  /\ [][(ApiDmm \/ ApiDmmOverflow) =>
          /\ phase' = phase
          /\ scopeVars' = scopeVars
          /\ \E s \in SampleVectors(DMM_channels) :
                DMM_channels' = [i \in DOMAIN DMM_channels |->
                                   DMM_push(DMM_channels[i], s[i])]]_vars
  /\ [][ApiScope =>
          /\ phase' = phase
          /\ dmmVars' = dmmVars
          /\ \E s \in SampleVectors(Scope_channels) :
                Scope_channels' = [i \in DOMAIN Scope_channels |->
                                     Scope_push(Scope_channels[i], s[i])]]_vars

SupportedRanges == {GainRange(g) : g \in Gains}

MinOf(S) == CHOOSE x \in S : \A y \in S : x <= y

MaxOf(S) == CHOOSE x \in S : \A y \in S : x >= y

\* C5 as stated: for every request up to 6.144 V, pgaToGain selects the smallest
\* supported range that is greater than or equal to the request.
C5_SmallestCoveringRange ==
  (drv.op = "pgaToGain" /\ FLe(drv.pga, Q(6144, 1000))) =>
     GainRange(drv.out) =
       MinOf({r \in SupportedRanges : FGe(Q(r, 1000), drv.pga)})

\* C5 amended: pgaToGain selects the largest supported range that is less than or
\* equal to the request, and the 0.256 V range when the request is below 0.256 V;
\* a request of 2.0 V selects the 1.024 V range.
C5_LargestRangeNotAbove ==
  drv.op = "pgaToGain" =>
     LET notAbove == {r \in SupportedRanges : FLe(Q(r, 1000), drv.pga)}
     IN  /\ GainRange(drv.out) = IF notAbove = {} THEN 256 ELSE MaxOf(notAbove)
         /\ drv.pga = F(2) => GainRange(drv.out) = 1024

C5_Witness ==
  drv.op = "pgaToGain" /\ drv.pga = F(2) /\ drv.out = "GAIN_FOUR"

\* C6 as stated: every readRaw() of the internal-ADC unit (any configured bit
\* depth, any code 0..1023) and of the ADS1115 unit (any signed 16-bit code)
\* returns a value in [0, 1].
C6_ReadRawInUnitInterval ==
  drv.op \in {"a0", "ads1115"} => (FGe(drv.out, F(0)) /\ FLe(drv.out, F(1)))

\* min(max(p, 0), 100)
MinMax0100(p) ==
  LET lo == IF FGt(F(0), p) THEN F(0) ELSE p
  IN  IF FLt(F(100), lo) THEN F(100) ELSE lo

\* C7: writePercent(p) drives the code writePercent(min(max(p, 0), 100)) drives,
\* for the MCP4725 and for the PWM output, writePercent(150) drives the code of
\* writePercent(100), and the PWM duty lies in 0..1023.
C7_WritePercentClamps ==
  /\ drv.op = "mcp4725" =>
       /\ drv.out = IO_MCP4725_code(drv.bits, MinMax0100(drv.percent))
       /\ drv.percent = F(150) => drv.out = IO_MCP4725_code(drv.bits, F(100))
  /\ drv.op = "0_10v" =>
       /\ drv.out = IO_0_10V_pwm(MinMax0100(drv.percent))
       /\ drv.percent = F(150) => drv.out = 1023
       /\ drv.out \in 0..1023

C7_Witness ==
  drv.op = "mcp4725" /\ drv.bits = 12 /\ drv.percent = F(150) /\ drv.out = 4095

\* C8: the list and the map only ever hold live units of the current generation,
\* and once begin() has released the registry no unit of an earlier generation
\* is left alive: the old generation is gone before the first new unit exists.
C8_OneGeneration ==
  /\ \A p \in DOMAIN heap :
       heap[p] # Released => (heap[p].gen = regGen /\ p \in Range(_list))
  /\ \A p \in Range(_list) \cup Range(_map) : Live(p) /\ heap[p].gen = regGen

C8_Witness ==
  /\ regGen = 2 /\ regPc = "create" /\ Len(_list) > 0
  /\ \E p \in DOMAIN heap : heap[p] = Released

RecognizedDevices == SelectSeq(cfgIo, LAMBDA d : d.driver \in KnownDrivers)

\* C9 as stated: after begin() the list holds exactly one unit per configured id,
\* in configuration order, one for every recognized descriptor, and get(id)
\* returns that unit.
C9_OneUnitPerId ==
  (regPc = "idle" /\ regGen > 0) =>
     /\ Len(_list) = Len(RecognizedDevices)
     /\ \A i \in DOMAIN _list : heap[_list[i]].id = RecognizedDevices[i].id
     /\ \A i, j \in DOMAIN _list : i # j => heap[_list[i]].id # heap[_list[j]].id
     /\ \A i \in DOMAIN _list : Get(heap[_list[i]].id) = _list[i]

\* C10 as stated: whenever a reader is about to read an element of a vector it
\* got from list(), that element is a unit that has not been released.
C10_SnapshotElementsLive ==
  (viewPc = "iter" /\ viewIdx <= Min(Len(viewSnap), MaxShown)) =>
     Live(viewSnap[viewIdx])

\* round(x): the integer nearest to the rational x >= 0, halves upwards
RoundNat(x) == (2 * x[1] + x[2]) \div (2 * x[2])

\* C27 as stated: for every configured bit depth N the code handed to the DAC
\* is round(clamp(p, 0, 100) / 100 * (2^N - 1)) and lies in 0..2^N - 1.
C27_CodeIsRoundedRatio ==
  drv.op = "mcp4725" =>
    /\ drv.out = RoundNat(FMul(FDiv(MinMax0100(drv.percent), F(100)),
                               F(Pow2(drv.bits) - 1)))
    /\ drv.out \in 0..(Pow2(drv.bits) - 1)

\* C24: an address has at most one ADS1115 handle and at most one MCP4725
\* handle over the whole run (begin() is called at most once per chip), every
\* call on a unit of the address works on the handle cached for it, distinct
\* chips have distinct handles, and no call removes or replaces a cached handle.
C24_OneHandlePerAddress ==
  /\ [](/\ \A k \in BusKeys : initTries[k] <= 1
        /\ \A a \in AdsAddrs : (a \in DOMAIN _adsDevices) <=> (initTries[<<"ads1115", a>>] = 1)
        /\ \A a \in DacAddrs : (a \in DOMAIN _dacDevices) <=> (initTries[<<"mcp4725", a>>] = 1)
        /\ \A a, b \in DOMAIN _adsDevices : a # b => _adsDevices[a] # _adsDevices[b]
        /\ \A a \in DOMAIN _adsDevices, b \in DOMAIN _dacDevices :
             _adsDevices[a] # _dacDevices[b]
        /\ drv.op = "ads1115.readRaw" => drv.handle = _adsDevices[drv.addr]
        /\ drv.op = "mcp4725.writePercent" => drv.handle = _dacDevices[drv.addr])
  /\ [][/\ \A a \in DOMAIN _adsDevices :
             a \in DOMAIN _adsDevices' /\ _adsDevices'[a] = _adsDevices[a]
        /\ \A a \in DOMAIN _dacDevices :
             a \in DOMAIN _dacDevices' /\ _dacDevices'[a] = _dacDevices[a]]_vars

\* the second logical unit of address 72 reads through the handle the first one
\* created, and the MCP4725 configured on the same address has a handle of its own
C24_Witness ==
  /\ drv.op = "ads1115.readRaw" /\ drv.addr = 72 /\ drv.channel = 1 /\ drv.cached
  /\ drv.handle = _adsDevices[72]
  /\ 72 \in DOMAIN _dacDevices /\ _dacDevices[72] # _adsDevices[72]
  /\ 73 \in DOMAIN _adsDevices

\* C25: for a chip that failed to initialize, begin() has been called exactly
\* once and the failure logged exactly once, and both counts stay there
\* whatever calls follow; a chip that initialized logs nothing.
C25_InitOnceLoggedOnce ==
  /\ [](\A k \in BusKeys : initErrors[k] <= initTries[k] /\ initTries[k] <= 1)
  /\ [][\A k \in BusKeys :
          /\ initErrors[k] = 1 => (initErrors'[k] = 1 /\ initTries'[k] = 1)
          /\ (initTries[k] = 1 /\ initErrors[k] = 0) => initErrors'[k] = 0]_vars

\* a read on a unit of a chip whose init failed in an earlier call
C25_Witness ==
  /\ drv.op = "ads1115.readRaw" /\ drv.cached
  /\ initErrors[<<"ads1115", drv.addr>>] = 1 /\ initTries[<<"ads1115", drv.addr>>] = 1
  /\ initErrors[<<"mcp4725", 96>>] = 1 /\ 96 \in DOMAIN _dacDevices

\* C26 as stated: once the ADS1115 of an address has failed to initialize,
\* every readRaw() on a unit of that address returns 0.
C26_FailedChipReadsZero ==
  (drv.op = "ads1115.readRaw" /\ initErrors[<<"ads1115", drv.addr>>] > 0) =>
     drv.out = F(0)

\* C28 as stated: the elapsed time FuncGen::loop() computes is the time that
\* has really passed since the recorded start, and it is never smaller than
\* the one computed a tick earlier, for any duration.
C28_ElapsedIsTrueTime ==
  drv.op = "funcgen.elapsed" =>
     /\ drv.t = drv.since
     /\ drv.ticksBefore <= drv.ticks

\* C29 as stated: whichever way a saveArea() call ends, the area's file holds
\* the whole document it held before the call or the whole document being
\* saved; it is never missing or partial.
C29_FileOldOrNew ==
  \A i \in DOMAIN loopLog :
     /\ files[loopLog[i].area].whole
     /\ files[loopLog[i].area] \in {loopLog[i].old, Whole(loopLog[i].doc)}

\* C30 as stated, a write being any saveArea() call that wrote to the flash:
\* such a call is made only on a dirty area, DEBOUNCE_MS after its last
\* requestSave() and MIN_PERIOD_MS after the last successful write; a loop()
\* call makes at most one, and at least MIN_PERIOD_MS after the one before.
C30_WritesSpaced ==
  /\ \A i \in DOMAIN loopLog :
       /\ loopLog[i].wasDirty
       /\ loopLog[i].at - loopLog[i].changed >= DEBOUNCE_MS
       /\ lastWrite >= 0 => loopLog[i].at - lastWrite >= MIN_PERIOD_MS
  /\ Cardinality(Touched(loopLog)) <= 1
  /\ \A i \in Touched(loopLog) :
       lastTouch >= 0 => loopLog[i].at - lastTouch >= MIN_PERIOD_MS

\* Restricted to the saveArea() calls that succeeded, the spacing holds: a
\* loop() call saves an area only if it is dirty, DEBOUNCE_MS have passed since
\* its last requestSave() and MIN_PERIOD_MS since the last successful save, and
\* it saves at most one area.
SavesSpaced ==
  /\ \A i \in DOMAIN loopLog :
       /\ loopLog[i].wasDirty
       /\ loopLog[i].at - loopLog[i].changed >= DEBOUNCE_MS
       /\ lastWrite >= 0 => loopLog[i].at - lastWrite >= MIN_PERIOD_MS
  /\ Cardinality(Saved(loopLog)) <= 1

\* the areas a loop() call tried to save and could not
Failed(log) == {log[i].area : i \in DOMAIN log \ Saved(log)}

\* C40: a loop() call leaves every area whose saveArea() failed dirty, clears
\* the dirty flag of the areas it saved and of no other, and leaves _lastSave
\* as it was unless it saved an area; and the next loop() call tries again
\* every area that failed, is still due and is not kept waiting by a save made
\* meanwhile, unless the power is lost during that call.
C40_FailedSaveRetried ==
  [][StoreLoop =>
       /\ Failed(loopLog') \subseteq dirty'
       /\ dirty \ dirty' = {loopLog'[i].area : i \in Saved(loopLog')}
       /\ Saved(loopLog') = {} => _lastSave' = _lastSave
       /\ \A a \in Failed(loopLog) :
            (/\ phase = "run" \/ phase = "setup"
             /\ phase' # "off"
             /\ now - lastChange[a] >= DEBOUNCE_MS
             /\ now - _lastSave >= MIN_PERIOD_MS)
            => \E i \in DOMAIN loopLog' :
                 loopLog'[i].area = a \/ loopLog'[i].ok]_vars

\* a save of dmm failed in an earlier loop() call and the latest one, the
\* area still dirty, has saved it
C40_Witness ==
  /\ failures = 1 /\ docVer["funcgen"] = 0
  /\ lastTouch >= 0 /\ lastWrite = -1
  /\ Len(loopLog) = 1 /\ loopLog[1].ok /\ loopLog[1].area = "dmm"
  /\ "dmm" \notin dirty /\ files["dmm"] = Whole(docVer["dmm"])

\* the file of area a holds the document as it is in memory and no save is pending
SavedCurrent(a) == a \notin dirty /\ files[a] = Whole(docVer[a])

\* C31 as stated: an area whose save was requested is eventually written with
\* its current document, or is modified again first.
C31_EveryRequestSaved ==
  \A a \in StoreAreas :
     (a \in dirty /\ lastChange[a] # now) ~> (SavedCurrent(a) \/ lastChange[a] = now)

\* The area std::map iterates first is always written in the end.
FirstAreaSaved ==
  ("dmm" \in dirty /\ lastChange["dmm"] # now)
     ~> (SavedCurrent("dmm") \/ lastChange["dmm"] = now)

\* C32 as stated: a logged line is passed to every callback that was registered,
\* in the order of registration.
C32_AllCallbacksCalled ==
  drv.op = "logger.log" => drv.to = registered

\* C33: tail(n) returns the last min(n, count) entries logged since begin(),
\* oldest first, count being the smaller of the number logged and the ring size.
C33_TailIsLastEntries ==
  drv.op = "logger.tail" =>
     LET count == IF logCount < RingSize THEN logCount ELSE RingSize
         m == IF drv.n < count THEN drv.n ELSE count
     IN  drv.out = [i \in 1..m |-> logCount - m + i]

\* the ring has wrapped and gone on, and tail() is asked for fewer entries
\* than it holds
C33_Witness ==
  /\ drv.op = "logger.tail" /\ drv.n = RingSize - 1
  /\ _hasWrapped /\ _ringHead = 2 /\ logCount = RingSize + 2
  /\ drv.out = <<logCount - 1, logCount>>

\* C34: maintainWiFi() calls WiFi.begin() only with a station configured and
\* down, no client on the access point, at least STA_RETRY_INTERVAL_MS after the
\* previous WiFi.begin() and after the last iteration that saw a client; an
\* iteration with a client, the station down, sets g_lastReconnectAttempt to now.
C34_RetryAfterInterval ==
  drv.op = "maintainWiFi" =>
     /\ drv.attempted =>
          /\ drv.configured /\ ~drv.connected /\ ~drv.clients
          /\ drv.prevAttempt >= 0 /\ drv.at - drv.prevAttempt >= STA_RETRY_INTERVAL_MS
          /\ drv.prevPostponed >= 0 => drv.at - drv.prevPostponed >= STA_RETRY_INTERVAL_MS
     /\ (drv.configured /\ ~drv.connected /\ drv.clients) =>
          (~drv.attempted /\ g_lastReconnectAttempt = drv.at)

\* a retry made exactly one interval after the last iteration with a client,
\* which had itself put off a retry that was due
C34_Witness ==
  /\ drv.op = "maintainWiFi" /\ drv.attempted
  /\ drv.prevPostponed >= 0 /\ drv.at - drv.prevPostponed = STA_RETRY_INTERVAL_MS
  /\ drv.prevPostponed - drv.prevAttempt >= STA_RETRY_INTERVAL_MS

\* C35: every step of an engine (DMM::loop(), Scope::loop(), FuncGen::loop(),
\* from loop() or from a handler) finds every unit it dereferences alive: each
\* DMM channel's io, each Scope channel's io, FuncGen's target.
C35_EnginesUseLiveUnits ==
  [][/\ (LoopDmm \/ UdpEmitDmm \/ ApiDmm \/ ApiDmmOverflow \/ DmmLoopReleased)
          => \A i \in DOMAIN DMM_channels : Live(DMM_channels[i].io)
     /\ (LoopScope \/ ApiScope \/ ScopeLoopReleased)
          => \A i \in DOMAIN Scope_channels : Live(Scope_channels[i].io)
     /\ (LoopFuncGen \/ LoopFuncGenReleased)
          => Live(_target)]_vars

\* C36: a response other than 401 from a handler behind checkAuth() goes to a
\* client that has completed a POST /login answered 200.
C36_ServedOnlyAfterLogin ==
  (resp.route \in ProtectedRoutes /\ resp.client \notin loggedIn) => resp.status = 401

\* C37: FuncGen::updateTarget() is called from the network only for a client
\* that has completed a POST /login answered 200.
C37_UpdateOnlyForLoggedIn ==
  drv.op = "FuncGen::updateTarget" => drv.by \in loggedIn

\* C39: POST /login with a pin answers 200, sets the cookie and sets
\* _hasAuthenticatedClient exactly when the submitted string is the expected
\* PIN; for every other string it answers 401 and leaves
\* _hasAuthenticatedClient as it was.
C39_OnlyExactPin ==
  [][(PostLogin /\ resp'.route = "POST /login" /\ resp'.body.kind = "json") =>
       IF resp'.body.pin = _expectedPin
       THEN resp'.status = 200 /\ resp'.setCookie /\ _hasAuthenticatedClient'
       ELSE /\ resp'.status = 401 /\ ~resp'.setCookie
            /\ _hasAuthenticatedClient' = _hasAuthenticatedClient]_vars

\* C38: when updateDisplayState() returns the state is STATUS if Wi-Fi is not
\* ready, it is IO coming from another state only from PIN with an
\* authenticated client, and it is IO only with an authenticated client.
C38_DisplayFollowsAuth ==
  drv.op = "updateDisplayState" =>
     /\ ~g_wifiReady => g_displayState = "STATUS"
     /\ (g_displayState = "IO" /\ drv.from # "IO") => drv.from = "PIN"
     /\ g_displayState = "IO" => _hasAuthenticatedClient

====
